---- MODULE Spec2Model ----
(***************************************************************************)
(* A model of the LED rendering scripts of the repository:                 *)
(*   - the knight-rider compositor (knightrider2.py, knightrider3.py,      *)
(*     knightrider3.1.py): per-row frames, priority merge, batch dispatch; *)
(*   - the disco dance floor (dancflooor.py): dancer threads, the flusher  *)
(*     thread and the per-switch buffer of OptimizedSwitchController;      *)
(*   - the audio visualizer (doubleMusic.py): FrequencyBandAnalyzer,       *)
(*     process_audio / update_switches and the queue of SwitchController.  *)
(* Each script is a program of its own; the variable prog says which one   *)
(* a behaviour runs, and the variables of the others keep their initial    *)
(* values.                                                                 *)
(***************************************************************************)
EXTENDS Integers, Sequences, FiniteSets, TLC

VARIABLES
    prog,           \* which script runs: "kr", "disco", "queue", "viz", "music", ...
    \* ---- knight rider (animate_rows) ----
    kr_variant,     \* "k2" | "k3" | "k31": the file animate_rows is taken from
    kr_rows,        \* the rows argument: a sequence of rows, each a sequence of LED numbers
    kr_pc,          \* position in animate_rows: "begin" | "merge" | "send" | "finally" | "done"
    kr_step,        \* step
    kr_errors,      \* error_count (knightrider3.1) / retries (knightrider3)
    kr_merged,      \* merged_updates: LED -> entry
    kr_batch,       \* the argument of the last driver call of the loop (<<>> before the first)
    kr_batch_step,  \* the value of step when kr_batch was built (-1 before the first)
    kr_final,       \* the batch of the finally block ("none" until it is issued)
    kr_ctl,         \* the colour each LED last received on the controller
    kr_driver,      \* the kind of controller object handed to animate_rows
    kr_result,      \* how the last batch_set_leds call of the loop ended, or "interrupt"
    kr_fails,       \* batch_set_leds calls of the loop that failed since the last success
    \* ---- disco dance floor (DiscoDanceFloor, OptimizedSwitchController) ----
    dd_monitor_only,\* monitor_only
    dd_running,     \* _running (the Event)
    dd_lock,        \* _buffer_lock: "free" or the thread that holds it
    dd_leds,        \* leds_unten / leds_oben: switch -> 48 colours
    dd_written,     \* the cells dancers wrote since the flusher's last snapshot
    dd_dancer,      \* position of each dancer thread: "check" | "write" | "exit"
    dd_pc,          \* position of the flusher thread and of the main thread
    dd_pos,         \* how far the copy of _send_buffers has got, per thread
    dd_bu,          \* bu_unten / bu_oben of _send_buffers, per thread
    dd_buff,        \* buff of OptimizedSwitchController.flush, per thread
    dd_swbuf,       \* _led_buffer of each OptimizedSwitchController
    dd_sent,        \* the frame the last flush of each switch worked on
    dd_cmd,         \* the last driver call each switch received
    \* ---- doubleMusic.SwitchController ----
    sc_running,     \* running
    sc_queue,       \* update_queue, oldest frame first
    sc_calls,       \* how many update_leds calls with a frame of the right length have begun
    sc_latest,      \* the frame the latest completed update_leds call enqueued
    sc_prod,        \* position of the caller inside update_leds
    sc_arg,         \* led_colors of the update_leds call in progress
    sc_cons,        \* position of the update thread inside _update_loop
    sc_led_colors,  \* led_colors of _update_loop and the latest frame at its get
    sc_shown,       \* the frame the controller shows
    sc_main,        \* position of the owner: "run" | "join" | "off" | "done"
    sc_sent,        \* how the driver calls for the last frame ended: "ok" | "raised"
    \* ---- doubleMusic.DualSwitchAudioVisualizer, music.EtherlightAudioVisualizer ----
    vz_monitor_only,\* monitor_only
    vz_col,         \* the column whose band carries the signal of this run
    vz_prev_level,  \* prev_level of the 24 analyzers (music.py: prev_levels of one column)
    vz_decay,       \* decay of the 24 analyzers, set by __init__ (music.py: DECAY)
    vz_frames,      \* how many audio blocks process_audio has handled
    vz_last,        \* the locals of the last analyze call of column vz_col
    vz_levels,      \* levels handed to the last update_switches
    vz_leds,        \* leds_unten / leds_oben handed to the last update_leds calls
    vz_updated,     \* update_switches has run
    \* ---- doubleMusic.BeatDetector ----
    bd_history,     \* bass_history, oldest sample first
    bd_last_beat_time, \* last_beat_time, in clock ticks
    bd_beat_strength,  \* beat_strength
    bd_now,         \* what time.time() returns, in clock ticks
    bd_calls,       \* detect_beat calls past the warm-up of this run
    bd_ret,         \* the last detect_beat call: what it returned and what it started from
    \* ---- knightriderdouple: DualSwitchKnightRider and its two SwitchControllers ----
    kd_pc,          \* kinghtrider: "run" | "cleanup_oben" | "cleanup_unten" | "done"
    kd_loops,       \* the argument loops
    kd_pos,         \* the columns of this iteration that have been set
    kd_iteration,   \* iteration
    kd_running,     \* SwitchController.running of each switch
    kd_queue,       \* SwitchController.update_queue of each switch
    kd_thread,      \* _update_loop of each switch: "loop" | "work" | "exit"
    kd_shown,       \* the lit cells of the grid each switch has last been written
    kd_sent,        \* the columns _set_column has been called with, in order
    kd_dispatched,  \* the columns of the grids each update thread has written, in order
    kd_interrupted, \* a KeyboardInterrupt has ended the loop
    \* ---- dance_floor: SimpleDanceFloor ----
    fl_monitor_only, \* monitor_only
    fl_mode,        \* mode: "alternating" | "sync" | "random"
    fl_running,     \* _running.is_set()
    fl_thread,      \* the mode thread: "top" | "mid" | "exit"
    fl_main,        \* start(): "wait" | "stop" | "off" | "done"
    fl_sw,          \* self.sw_unten / self.sw_oben: "etherlight" | "none"
    fl_cmd,         \* the last operation each driver object has been asked for
    fl_log,         \* the last colour printed for each switch in monitor mode
    fl_changes,     \* the switches the mode thread has coloured, in order
    fl_late,        \* how many of them it coloured after _running was cleared
    \* ---- etherlightwin: Etherlight.write_command and its callers ----
    el_channel,     \* _channel.active
    el_lock,        \* _lock: 0 (free) or the thread that holds it
    el_led_cache,   \* led_cache
    el_pc,          \* each calling thread: "idle" | "enter" | "locked" | "returned" | "raised"
    el_flush,       \* each calling thread: is the caller flush_led_cache
    el_ret,         \* each thread's last write_command: what happened, the value, its number
    el_calls,       \* write_command calls that have ended
    el_cmd,         \* each thread's command: the chunks flush_led_cache built, <<>> otherwise
    el_sent,        \* the commands of flush_led_cache handed to the transport, in order
    el_cached,      \* how many lines cache_led_color has appended
    el_overlap,     \* another caller has touched led_cache while a flush was under way
    \* ---- the pure functions, applied to one input ----
    fn_name,        \* the function applied
    fn_args,        \* its arguments
    fn_out,         \* <<>> before the call, then what it returned
    \* ---- main: MainWindow and its subprocesses ----
    mw_processes,   \* self.processes: the Popen objects, by number
    mw_alive,       \* which subprocesses run (poll() is None)
    mw_started,     \* how many subprocesses Popen has created
    mw_attempts,    \* start_process calls
    mw_pc,          \* the GUI thread: "idle" | "loop" (inside stop_all_processes)
    mw_todo,        \* what is left of list(self.processes) in stop_all_processes
    mw_term,        \* the subprocesses terminate() has been called on
    mw_timeout,     \* the subprocesses whose wait after terminate() timed out
    mw_kill,        \* the subprocesses kill() has been called on
    mw_returned     \* stop_all_processes has returned and nothing was started since

krVars == <<kr_variant, kr_rows, kr_pc, kr_step, kr_errors, kr_merged, kr_batch,
            kr_batch_step, kr_final, kr_ctl, kr_driver, kr_result, kr_fails>>

ddVars == <<dd_monitor_only, dd_running, dd_lock, dd_leds, dd_written, dd_dancer, dd_pc,
            dd_pos, dd_bu, dd_buff, dd_swbuf, dd_sent, dd_cmd>>

scVars == <<sc_running, sc_queue, sc_calls, sc_latest, sc_prod, sc_arg, sc_cons,
            sc_led_colors, sc_shown, sc_main, sc_sent>>

vzVars == <<vz_monitor_only, vz_col, vz_prev_level, vz_decay, vz_frames, vz_last, vz_levels,
            vz_leds, vz_updated>>

bdVars == <<bd_history, bd_last_beat_time, bd_beat_strength, bd_now, bd_calls, bd_ret>>

kdVars == <<kd_pc, kd_loops, kd_pos, kd_iteration, kd_running, kd_queue, kd_thread,
            kd_shown, kd_sent, kd_dispatched, kd_interrupted>>

flVars == <<fl_monitor_only, fl_mode, fl_running, fl_thread, fl_main, fl_sw, fl_cmd, fl_log,
            fl_changes, fl_late>>

elVars == <<el_channel, el_lock, el_led_cache, el_pc, el_flush, el_ret, el_calls, el_cmd,
            el_sent, el_cached, el_overlap>>

fnVars == <<fn_name, fn_args, fn_out>>

mwVars == <<mw_processes, mw_alive, mw_started, mw_attempts, mw_pc, mw_todo, mw_term,
            mw_timeout, mw_kill, mw_returned>>

vars == <<prog, krVars, ddVars, scVars, vzVars, bdVars, kdVars, flVars, elVars, fnVars,
          mwVars>>

\* What an action of one program leaves alone: the other programs.
krOthers == <<ddVars, scVars, vzVars, bdVars, kdVars, flVars, elVars, fnVars,
             mwVars>>

ddOthers == <<prog, krVars, scVars, vzVars, bdVars, kdVars, flVars, elVars, fnVars,
             mwVars>>

scOthers == <<prog, krVars, ddVars, vzVars, bdVars, kdVars, flVars, elVars, fnVars,
             mwVars>>

vzOthers == <<prog, krVars, ddVars, scVars, bdVars, kdVars, flVars, elVars, fnVars,
             mwVars>>

bdOthers == <<prog, krVars, ddVars, scVars, vzVars, kdVars, flVars, elVars, fnVars,
             mwVars>>

kdOthers == <<prog, krVars, ddVars, scVars, vzVars, bdVars, flVars, elVars, fnVars,
             mwVars>>

flOthers == <<prog, krVars, ddVars, scVars, vzVars, bdVars, kdVars, elVars, fnVars,
             mwVars>>

elOthers == <<prog, krVars, ddVars, scVars, vzVars, bdVars, kdVars, flVars, fnVars,
             mwVars>>

fnOthers == <<prog, krVars, ddVars, scVars, vzVars, bdVars, kdVars, flVars, elVars,
             mwVars>>

mwOthers == <<prog, krVars, ddVars, scVars, vzVars, bdVars, kdVars, flVars, elVars,
             fnVars>>

(***************************************************************************)
(* Bounds of the model.                                                    *)
(***************************************************************************)
MaxRows == 2        \* rows handed to animate_rows
MaxStep == 8        \* animation steps explored (the period of a 5-LED row)
NumDancers == 1     \* num_dancers
MaxDancerCol == 1   \* the dancers draw their column from 0..MaxDancerCol-1
MaxDancerRow == 2   \* the dancers draw their row from 0..MaxDancerRow-1
MaxColors == 1      \* how many colours of the LUT the dancers draw from
MaxCalls == 12      \* update_leds calls explored (two more than the queue holds)
MaxFrames == 4      \* audio blocks handed to process_audio
MaxHotCalls == 3    \* detect_beat calls explored once the history is warmed up
MaxLoops == 2       \* the largest argument loops of kinghtrider
MaxRowLen == 6      \* the longest row the pure functions are applied to
MaxFnStep == 12     \* the pure functions are applied to the steps -MaxFnStep..MaxFnStep
MaxDbMargin == 2    \* db_scale is applied to MIN_DB - MaxDbMargin..MAX_DB + MaxDbMargin
MaxCallers == 2     \* threads that call into one Etherlight object
MaxCache == 2       \* lines led_cache holds at most
MaxWriteCalls == 3  \* write_command calls explored
MaxEvals == 3       \* colours computed one after the other
MaxChanges == 4     \* colour changes of the mode thread of SimpleDanceFloor
MaxFlushLen == 101  \* lines in led_cache when flush_led_cache builds its command
MaxLeds == 12       \* num_leds of build_led_index_map
MaxColumns == 5     \* columns of build_led_index_map
MaxProcs == 3       \* subprocesses started in one run of main.py
MaxStarts == 4      \* start_process calls in one run

(***************************************************************************)
(* Generic helpers.                                                        *)
(***************************************************************************)
EmptyDict == [x \in {} |-> 0]

Put(f, k, v) == [x \in DOMAIN f \cup {k} |-> IF x = k THEN v ELSE f[x]]

Range(s) == {s[i] : i \in DOMAIN s}

RECURSIVE SortedSeq(_)
SortedSeq(S) ==
    IF S = {} THEN <<>>
    ELSE LET m == CHOOSE x \in S : \A y \in S : x <= y
         IN <<m>> \o SortedSeq(S \ {m})

(***************************************************************************)
(* Knight rider: constants of the three files.                             *)
(***************************************************************************)
OffRGB == <<0, 0, 0>>

COLOR_MAP_2 ==
    [main |-> <<190, 0, 0>>, trail1 |-> <<255, 0, 0>>, trail2 |-> <<220, 0, 0>>,
     trail3 |-> <<100, 0, 0>>, off |-> <<0, 0, 0>>]

COLOR_PRIORITY_2 == [off |-> 0, trail3 |-> 1, trail2 |-> 2, trail1 |-> 3, main |-> 4]

COLOR_MAP_3 ==
    [main |-> <<190, 0, 0>>, trail1 |-> <<255, 0, 0>>, trail2 |-> <<220, 0, 0>>,
     trail3 |-> <<100, 0, 0>>, off |-> <<0, 0, 0>>]

COLOR_PRIORITY_3 == [off |-> 0, trail3 |-> 1, trail2 |-> 2, trail1 |-> 3, main |-> 4]

COLOR_MAP_31 ==
    [main |-> <<<<190, 0, 0>>, 255>>, trail1 |-> <<<<255, 0, 0>>, 180>>,
     trail2 |-> <<<<220, 0, 0>>, 100>>, trail3 |-> <<<<100, 0, 0>>, 30>>,
     trail4 |-> <<<<50, 0, 0>>, 15>>, off |-> <<<<0, 0, 0>>, 0>>]

COLOR_PRIORITY_31 ==
    [off |-> 0, trail4 |-> 1, trail3 |-> 2, trail2 |-> 3, trail1 |-> 4, main |-> 5]

COLOR_PRIORITY(v) ==
    IF v = "k31" THEN COLOR_PRIORITY_31
    ELSE IF v = "k3" THEN COLOR_PRIORITY_3 ELSE COLOR_PRIORITY_2

max_errors == 10

max_retries == 3

\* An error ceiling that lets one more failure pass.
too_many_errors_late(error_count) == error_count > max_errors

\* knightrider3.1: error_count >= max_errors.
too_many_errors(error_count) == error_count >= max_errors

\* knightrider3: retries > max_retries.
too_many_retries(retries) == retries > max_retries

\* What a batch_set_leds call does: return True, return False, raise.  The
\* etherlightwin driver never raises (write_command returns False instead).
KR_Outcomes(driver) ==
    IF driver = "etherlightwin" THEN {"ok", "false"} ELSE {"ok", "false", "raise"}

(***************************************************************************)
(* compute_pingpong_pos and the direction of build_frame_for_row (the same *)
(* code in the three files).  Python's % with a positive modulus is the    *)
(* mathematical one, as is TLA+'s.                                         *)
(***************************************************************************)
\* A position that wraps around instead of turning back.
compute_pingpong_pos_wrapping(step, n) == IF n <= 1 THEN 0 ELSE step % n

compute_pingpong_pos(step, n) ==
    IF n <= 1 THEN 0
    ELSE LET period == 2 * n - 2
             cyc == step % period
         IN IF cyc < n THEN cyc ELSE period - cyc

\* A direction that never turns.
direction_forward(step, n) == 1

direction(step, n) ==
    IF n <= 1 THEN 1
    ELSE LET pos == compute_pingpong_pos(step, n)
             prev_pos == compute_pingpong_pos(step - 1, n)
         IN IF pos > prev_pos THEN 1
            ELSE IF pos < prev_pos THEN -1 ELSE 1

\* try_set without the priority test: the last writer wins.
try_set_last_wins(frame, row, idx_in_row, color_name, prio) ==
    IF 0 <= idx_in_row /\ idx_in_row < Len(row)
    THEN Put(frame, row[idx_in_row + 1], color_name)
    ELSE frame

(***************************************************************************)
(* try_set: frame is the dict of build_frame_for_row (LED -> colour name), *)
(* idx_in_row is 0-based.                                                  *)
(***************************************************************************)
try_set(frame, row, idx_in_row, color_name, prio) ==
    IF 0 <= idx_in_row /\ idx_in_row < Len(row)
    THEN LET led == row[idx_in_row + 1]
         IN IF led \notin DOMAIN frame \/ prio[color_name] > prio[frame[led]]
            THEN Put(frame, led, color_name)
            ELSE frame
    ELSE frame

\* The calls of try_set in the order build_frame_for_row makes them.
RECURSIVE try_set_all(_, _, _, _)
try_set_all(frame, row, subs, prio) ==
    IF subs = <<>> THEN frame
    ELSE try_set_all(try_set(frame, row, Head(subs)[1], Head(subs)[2], prio),
                     row, Tail(subs), prio)

\* The (index, colour name) arguments of the try_set calls, in call order.
submissions_31(step, n) ==
    LET pos == compute_pingpong_pos(step, n)
        d == direction(step, n)
    IN << <<pos, "main">>, <<pos - d, "trail1">>, <<pos - 2 * d, "trail2">>,
          <<pos - 3 * d, "trail3">>, <<pos - 4 * d, "trail4">> >>

submissions_3(step, n) ==
    LET pos == compute_pingpong_pos(step, n)
        d == direction(step, n)
    IN << <<pos, "main">>, <<pos - d, "trail1">>, <<pos - 2 * d, "trail2">>,
          <<pos - 3 * d, "trail3">> >>

submissions_2(step, n) ==
    LET pos == compute_pingpong_pos(step, n)
        d == direction(step, n)
    IN << <<pos, "main">>, <<pos - d, "trail1">>, <<pos - 2 * d, "trail2">>,
          <<pos - 3 * d, "trail3">>, <<pos - 4 * d, "off">>, <<pos + d, "off">> >>

submissions(v, step, n) ==
    IF v = "k31" THEN submissions_31(step, n)
    ELSE IF v = "k3" THEN submissions_3(step, n) ELSE submissions_2(step, n)

\* build_frame_for_row of knightrider3.py and knightrider3.1.py: LED -> colour name.
build_frame_for_row(v, row, step) ==
    try_set_all(EmptyDict, row, submissions(v, step, Len(row)), COLOR_PRIORITY(v))

\* build_frame_for_row of knightrider2.py returns LED -> RGB.
build_frame_for_row_2(row, step) ==
    LET frame == try_set_all(EmptyDict, row, submissions_2(step, Len(row)), COLOR_PRIORITY_2)
    IN [led \in DOMAIN frame |-> COLOR_MAP_2[frame[led]]]

\* inv_color_map of knightrider2.animate_rows: RGB -> colour name.
inv_color_map(rgb) == CHOOSE k \in DOMAIN COLOR_MAP_2 : COLOR_MAP_2[k] = rgb

(***************************************************************************)
(* animate_rows: the LEDs of all rows, the baseline of a tick, the merge   *)
(* of the per-row frames and the batch handed to the driver.               *)
(***************************************************************************)
all_leds(rows) == UNION {Range(rows[i]) : i \in DOMAIN rows}

\* The entry (name, rgb, alpha) that knightrider3.1 stores in merged_updates.
entry_31(name) == <<name, COLOR_MAP_31[name][1], COLOR_MAP_31[name][2]>>

\* The entry (name, rgb) that knightrider3 and knightrider2 store.
entry_3(name) == <<name, COLOR_MAP_3[name]>>

baseline_31(rows) == [led \in all_leds(rows) |-> entry_31("off")]

baseline_3(rows) == [led \in all_leds(rows) |-> entry_3("off")]

\* A buffer that is not rebuilt: the entries of the previous tick stay.
baseline_stale(v, rows) ==
    IF kr_merged = EmptyDict
    THEN IF v = "k31" THEN baseline_31(rows)
         ELSE IF v = "k3" THEN baseline_3(rows) ELSE EmptyDict
    ELSE kr_merged

baseline(v, rows) ==
    IF v = "k31" THEN baseline_31(rows)
    ELSE IF v = "k3" THEN baseline_3(rows) ELSE EmptyDict

\* The merge without the priority test: the last row wins.
merge_frame_31_last_wins(merged, frame) ==
    [led \in DOMAIN merged \cup DOMAIN frame |->
        IF led \in DOMAIN frame THEN entry_31(frame[led]) ELSE merged[led]]

\* for led, color_name in frame.items(): ... of knightrider3.1.
merge_frame_31(merged, frame) ==
    LET curr(led) == IF led \in DOMAIN merged THEN merged[led] ELSE entry_31("off")
        wins(led) == COLOR_PRIORITY_31[frame[led]] > COLOR_PRIORITY_31[curr(led)[1]]
    IN [led \in DOMAIN merged \cup {l \in DOMAIN frame : wins(l)} |->
            IF led \in DOMAIN frame /\ wins(led) THEN entry_31(frame[led])
            ELSE merged[led]]

\* for led, color_name in frame.items(): ... of knightrider3.
merge_frame_3(merged, frame) ==
    LET curr(led) == IF led \in DOMAIN merged THEN merged[led] ELSE entry_3("off")
        wins(led) == COLOR_PRIORITY_3[frame[led]] > COLOR_PRIORITY_3[curr(led)[1]]
    IN [led \in DOMAIN merged \cup {l \in DOMAIN frame : wins(l)} |->
            IF led \in DOMAIN frame /\ wins(led) THEN entry_3(frame[led])
            ELSE merged[led]]

\* for led, rgb in frame.items(): ... of knightrider2 (frame maps LED -> RGB).
merge_frame_2(merged, frame) ==
    [led \in DOMAIN merged \cup DOMAIN frame |->
        IF led \notin DOMAIN frame THEN merged[led]
        ELSE LET incoming_name == inv_color_map(frame[led])
             IN IF led \notin DOMAIN merged THEN <<incoming_name, frame[led]>>
                ELSE IF COLOR_PRIORITY_2[incoming_name] > COLOR_PRIORITY_2[merged[led][1]]
                     THEN <<incoming_name, frame[led]>>
                     ELSE merged[led]]

\* for row in rows: frame = build_frame_for_row(row, step); merge.
RECURSIVE merge_rows(_, _, _, _)
merge_rows(v, merged, rows, step) ==
    IF rows = <<>> THEN merged
    ELSE LET m == IF v = "k31"
                  THEN merge_frame_31(merged, build_frame_for_row(v, Head(rows), step))
                  ELSE IF v = "k3"
                       THEN merge_frame_3(merged, build_frame_for_row(v, Head(rows), step))
                       ELSE merge_frame_2(merged, build_frame_for_row_2(Head(rows), step))
         IN merge_rows(v, m, Tail(rows), step)

\* led_colors: merged_updates was created from the sorted all_leds, so its items
\* come in ascending LED order.  knightrider2 sends one set_led_color(led, rgb)
\* per entry; its entries are kept in ascending LED order too (the LEDs of one
\* step are distinct, so the order of the commands does not change their effect).
led_colors(v, merged) ==
    LET order == SortedSeq(DOMAIN merged)
    IN [i \in 1..Len(order) |->
            IF v = "k31" THEN <<order[i], merged[order[i]][2], merged[order[i]][3]>>
            ELSE IF v = "k3" THEN <<order[i], merged[order[i]][2], 100>>
                 ELSE <<order[i], merged[order[i]][2]>>]

\* off_list of the finally block.
\* An off list for the LEDs of the first row only.
off_list_first_row(v, rows) ==
    LET order == SortedSeq(IF rows = <<>> THEN {} ELSE Range(rows[1]))
    IN [i \in 1..Len(order) |->
            IF v = "k31" THEN <<order[i], COLOR_MAP_31["off"][1], COLOR_MAP_31["off"][2]>>
            ELSE IF v = "k3" THEN <<order[i], COLOR_MAP_3["off"], 100>>
                 ELSE <<order[i], COLOR_MAP_2["off"]>>]

\* finally: off_list, one entry per LED of all_leds.
off_list(v, rows) ==
    LET order == SortedSeq(all_leds(rows))
    IN [i \in 1..Len(order) |->
            IF v = "k31" THEN <<order[i], COLOR_MAP_31["off"][1], COLOR_MAP_31["off"][2]>>
            ELSE IF v = "k3" THEN <<order[i], COLOR_MAP_3["off"], 100>>
                 ELSE <<order[i], COLOR_MAP_2["off"]>>]

\* Etherlight.batch_set_leds / set_led_color with a working channel: every LED of
\* the commands takes its colour.
driver_apply(ctl, cmds) ==
    [led \in DOMAIN ctl |->
        IF \E i \in DOMAIN cmds : cmds[i][1] = led
        THEN cmds[CHOOSE i \in DOMAIN cmds : cmds[i][1] = led][2]
        ELSE ctl[led]]

(***************************************************************************)
(* Disco dance floor (dancflooor.py).                                      *)
(***************************************************************************)
FIRST_ROW_DD ==
    <<2, 4, 6, 8, 10, 12, 14, 16, 18, 20, 22, 24, 26, 28, 30, 32, 34, 36, 38, 40, 42, 44,
      46, 48>>

SECOND_ROW_DD ==
    <<1, 3, 5, 7, 9, 11, 13, 15, 17, 19, 21, 23, 25, 27, 29, 31, 33, 35, 37, 39, 41, 43,
      45, 47>>

NUM_COLUMNS_DD == 24

LEDS_PER_COLUMN_DD == 4

DD_BufLen == 48

DD_Switches == {"unten", "oben"}

DD_Threads == {"flusher", "main"}

DD_Dancers == 1..NumDancers

DD_AllOff == [i \in 0..(DD_BufLen - 1) |-> OffRGB]

\* A mapping that takes both rows of a switch from FIRST_ROW.
column_to_leds_one_row(col, row) ==
    <<IF row <= 1 THEN "unten" ELSE "oben", FIRST_ROW_DD[col + 1] - 1>>

\* _column_to_leds[col]: the switch and the buffer index of (col, row).
column_to_leds(col, row) ==
    IF row = 0 THEN <<"unten", FIRST_ROW_DD[col + 1] - 1>>
    ELSE IF row = 1 THEN <<"unten", SECOND_ROW_DD[col + 1] - 1>>
    ELSE IF row = 2 THEN <<"oben", FIRST_ROW_DD[col + 1] - 1>>
    ELSE <<"oben", SECOND_ROW_DD[col + 1] - 1>>

\* random_color_from_lut: the first and the last entry of the LUT at full
\* brightness; every colour it returns has a red channel of at least 25.
DD_ColorList == << <<255, 0, 0>>, <<50, 100, 255>>, <<127, 0, 0>> >>

DD_Colors == {DD_ColorList[i] : i \in 1..MaxColors}

\* The columns the dancers of the model draw (rng.randrange(0, NUM_COLUMNS)).
DD_Cols == 0..(MaxDancerCol - 1)

\* The rows the dancers of the model draw (rng.randrange(0, LEDS_PER_COLUMN)).
DD_Rows == {r \in 0..(LEDS_PER_COLUMN_DD - 1) : r < MaxDancerRow}

\* The indices of a switch buffer that a dancer of the model can write.
DD_Cells(sw) ==
    {cell[2] : cell \in {x \in {column_to_leds(c, r) : c \in DD_Cols, r \in DD_Rows} : x[1] = sw}}

\* list(self.leds_unten) copies the list element by element.  The copy is cut
\* before every index a dancer can write: entries between two cuts are written
\* by nobody, so a finer interleaving shows nothing else.
DD_Cuts(sw) == SortedSeq((DD_Cells(sw) \cup {0}))

DD_ChunkOf(sw, k) ==
    LET cuts == DD_Cuts(sw)
    IN cuts[k]..(IF k = Len(cuts) THEN DD_BufLen - 1 ELSE cuts[k + 1] - 1)

\* The copy steps of _send_buffers in order: bu_unten, then bu_oben.
DD_CopySteps ==
    [k \in 1..Len(DD_Cuts("unten")) |-> <<"unten", k>>]
        \o [k \in 1..Len(DD_Cuts("oben")) |-> <<"oben", k>>]

\* A frame on its way to a switch: the colours, the content the floor buffer of
\* that switch had when _buffer_lock was taken for the snapshot, the cells
\* dancers had written in the tick before it, and the thread it belongs to.
DD_Frame(leds, at, fresh, by) == [leds |-> leds, at |-> at, fresh |-> fresh, by |-> by]

DD_InitFrame == DD_Frame(DD_AllOff, DD_AllOff, {}, "init")

\* No flush has worked on a frame yet; no driver call has been received yet.
DD_NoFrame == DD_Frame(DD_AllOff, DD_AllOff, {}, "none")

DD_NoCmd == <<"none">>

\* A dancer that writes without regard to _buffer_lock.
buffer_lock_ignored(lock) == TRUE

\* with self._buffer_lock: the lock can be taken.
buffer_lock_free(lock) == lock = "free"

\* led_colors of OptimizedSwitchController.flush.
\* A flush that sends the LEDs that are off as well.
flush_led_colors_all(buff, i) == [k \in 1..DD_BufLen |-> <<k, buff[k - 1], 100>>]

RECURSIVE flush_led_colors(_, _)
flush_led_colors(buff, i) ==
    IF i >= DD_BufLen THEN <<>>
    ELSE (IF buff[i] # OffRGB THEN << <<i + 1, buff[i], 100>> >> ELSE <<>>)
             \o flush_led_colors(buff, i + 1)

DD_Idle ==
    /\ dd_monitor_only = FALSE /\ dd_running = FALSE /\ dd_lock = "free"
    /\ dd_leds = <<>> /\ dd_written = {} /\ dd_dancer = <<>> /\ dd_pc = <<>>
    /\ dd_pos = <<>> /\ dd_bu = <<>> /\ dd_buff = <<>> /\ dd_swbuf = <<>>
    /\ dd_sent = <<>> /\ dd_cmd = <<>>

\* DiscoDanceFloor.__init__ and start(): the threads are started.
DD_Init ==
    /\ dd_monitor_only \in BOOLEAN
    /\ dd_running = TRUE
    /\ dd_lock = "free"
    /\ dd_leds = [sw \in DD_Switches |-> DD_AllOff]
    /\ dd_written = {}
    /\ dd_dancer = [d \in DD_Dancers |-> "check"]
    /\ dd_pc = [t \in DD_Threads |-> IF t = "flusher" THEN "check" ELSE "wait"]
    /\ dd_pos = [t \in DD_Threads |-> 0]
    /\ dd_bu = [t \in DD_Threads |-> [sw \in DD_Switches |-> DD_InitFrame]]
    /\ dd_buff = [t \in DD_Threads |-> DD_InitFrame]
    /\ dd_swbuf = [sw \in DD_Switches |-> DD_InitFrame]
    /\ dd_sent = [sw \in DD_Switches |-> DD_NoFrame]
    /\ dd_cmd = [sw \in DD_Switches |-> DD_NoCmd]

\* _dancer_thread: while self._running.is_set().
DD_DancerCheck(d) ==
    /\ prog = "disco" /\ dd_dancer[d] = "check"
    /\ dd_dancer' = [dd_dancer EXCEPT ![d] = IF dd_running THEN "write" ELSE "exit"]
    /\ UNCHANGED <<dd_monitor_only, dd_running, dd_lock, dd_leds, dd_written, dd_pc, dd_pos,
                   dd_bu, dd_buff, dd_swbuf, dd_sent, dd_cmd>>
    /\ UNCHANGED ddOthers

\* _dancer_thread: col, row and color are drawn, the cell is written under
\* _buffer_lock.
DD_DancerWrite(d) ==
    /\ prog = "disco" /\ dd_dancer[d] = "write"
    /\ buffer_lock_free(dd_lock)
    /\ \E col \in DD_Cols, row \in DD_Rows, color \in DD_Colors :
         LET cell == column_to_leds(col, row)
         IN /\ dd_leds' = [dd_leds EXCEPT ![cell[1]][cell[2]] = color]
            /\ dd_written' = dd_written \cup {cell}
    /\ dd_dancer' = [dd_dancer EXCEPT ![d] = "check"]
    /\ UNCHANGED <<dd_monitor_only, dd_running, dd_lock, dd_pc, dd_pos, dd_bu, dd_buff,
                   dd_swbuf, dd_sent, dd_cmd>>
    /\ UNCHANGED ddOthers

\* _flusher_thread: while self._running.is_set().
DD_FlusherCheck ==
    /\ prog = "disco" /\ dd_pc["flusher"] = "check"
    /\ dd_pc' = [dd_pc EXCEPT !["flusher"] = IF dd_running THEN "lock" ELSE "exit"]
    /\ UNCHANGED <<dd_monitor_only, dd_running, dd_lock, dd_leds, dd_written, dd_dancer,
                   dd_pos, dd_bu, dd_buff, dd_swbuf, dd_sent, dd_cmd>>
    /\ UNCHANGED ddOthers

\* _send_buffers: with self._buffer_lock (the lock is taken).
DD_SendLock(t) ==
    /\ prog = "disco" /\ dd_pc[t] = "lock"
    /\ dd_lock = "free"
    /\ dd_lock' = t
    /\ dd_pc' = [dd_pc EXCEPT ![t] = "copy"]
    /\ dd_pos' = [dd_pos EXCEPT ![t] = 1]
    /\ dd_bu' = [dd_bu EXCEPT ![t] =
                    [sw \in DD_Switches |->
                        DD_Frame(DD_AllOff, dd_leds[sw],
                                 IF t = "flusher"
                                 THEN {c[2] : c \in {x \in dd_written : x[1] = sw}}
                                 ELSE {},
                                 t)]]
    /\ dd_written' = IF t = "flusher" THEN {} ELSE dd_written
    /\ UNCHANGED <<dd_monitor_only, dd_running, dd_leds, dd_dancer, dd_buff, dd_swbuf,
                   dd_sent, dd_cmd>>
    /\ UNCHANGED ddOthers

\* _send_buffers: bu_unten = list(self.leds_unten); bu_oben = list(self.leds_oben),
\* one stretch of entries at a time; the lock is released after the last.
DD_SendCopy(t) ==
    /\ prog = "disco" /\ dd_pc[t] = "copy"
    /\ LET sw == DD_CopySteps[dd_pos[t]][1]
           chunk == DD_ChunkOf(sw, DD_CopySteps[dd_pos[t]][2])
       IN dd_bu' = [dd_bu EXCEPT ![t][sw].leds =
                        [i \in 0..(DD_BufLen - 1) |->
                            IF i \in chunk THEN dd_leds[sw][i] ELSE @[i]]]
    /\ IF dd_pos[t] = Len(DD_CopySteps)
       THEN /\ dd_lock' = "free"
            /\ dd_pc' = [dd_pc EXCEPT ![t] = "set_unten"]
            /\ dd_pos' = [dd_pos EXCEPT ![t] = 0]
       ELSE /\ dd_pos' = [dd_pos EXCEPT ![t] = @ + 1]
            /\ UNCHANGED <<dd_lock, dd_pc>>
    /\ UNCHANGED <<dd_monitor_only, dd_running, dd_leds, dd_written, dd_dancer, dd_buff,
                   dd_swbuf, dd_sent, dd_cmd>>
    /\ UNCHANGED ddOthers

\* _send_buffers: self.sw_unten.set_buffer(bu_unten); self.sw_oben.set_buffer(bu_oben).
DD_SetBuffer(t, sw) ==
    /\ prog = "disco" /\ dd_pc[t] = "set_" \o sw
    /\ dd_swbuf' = [dd_swbuf EXCEPT ![sw] = dd_bu[t][sw]]
    /\ dd_pc' = [dd_pc EXCEPT ![t] = IF sw = "unten" THEN "set_oben" ELSE "flush_unten"]
    /\ dd_bu' = [dd_bu EXCEPT ![t][sw] = DD_InitFrame]      \* the local is dead from here
    /\ UNCHANGED <<dd_monitor_only, dd_running, dd_lock, dd_leds, dd_written, dd_dancer,
                   dd_pos, dd_buff, dd_sent, dd_cmd>>
    /\ UNCHANGED ddOthers

\* OptimizedSwitchController.flush: buff = list(self._led_buffer) under the lock
\* of the controller.
DD_FlushRead(t, sw) ==
    /\ prog = "disco" /\ dd_pc[t] = "flush_" \o sw
    /\ dd_buff' = [dd_buff EXCEPT ![t] = dd_swbuf[sw]]
    /\ dd_sent' = [dd_sent EXCEPT ![sw] = dd_swbuf[sw]]
    /\ dd_pc' = [dd_pc EXCEPT ![t] = "send_" \o sw]
    /\ UNCHANGED <<dd_monitor_only, dd_running, dd_lock, dd_leds, dd_written, dd_dancer,
                   dd_pos, dd_bu, dd_swbuf, dd_cmd>>
    /\ UNCHANGED ddOthers

\* OptimizedSwitchController.flush: the lit LEDs go to batch_set_leds, unless
\* monitor_only or no LED is lit.  A failing driver changes nothing here.
DD_FlushSend(t, sw) ==
    /\ prog = "disco" /\ dd_pc[t] = "send_" \o sw
    /\ LET led_colors_ == flush_led_colors(dd_buff[t].leds, 0)
       IN dd_cmd' = IF dd_monitor_only \/ led_colors_ = <<>>
                    THEN dd_cmd
                    ELSE [dd_cmd EXCEPT ![sw] = <<"batch_set_leds", led_colors_>>]
    /\ dd_pc' = [dd_pc EXCEPT ![t] =
                    IF sw = "unten" THEN "flush_oben"
                    ELSE IF t = "flusher" THEN "check" ELSE "cleanup_unten"]
    /\ dd_buff' = [dd_buff EXCEPT ![t] = DD_InitFrame]      \* the local is dead from here
    /\ UNCHANGED <<dd_monitor_only, dd_running, dd_lock, dd_leds, dd_written, dd_dancer,
                   dd_pos, dd_bu, dd_swbuf, dd_sent>>
    /\ UNCHANGED ddOthers

\* start(): KeyboardInterrupt, stop() begins: self._running.clear().
DD_StopClear ==
    /\ prog = "disco" /\ dd_pc["main"] = "wait"
    /\ dd_running' = FALSE
    /\ dd_pc' = [dd_pc EXCEPT !["main"] = "reset"]
    /\ UNCHANGED <<dd_monitor_only, dd_lock, dd_leds, dd_written, dd_dancer, dd_pos, dd_bu,
                   dd_buff, dd_swbuf, dd_sent, dd_cmd>>
    /\ UNCHANGED ddOthers

\* stop(): after the sleep both buffers are replaced by all-off lists under
\* _buffer_lock.
DD_StopReset ==
    /\ prog = "disco" /\ dd_pc["main"] = "reset"
    /\ dd_lock = "free"
    /\ dd_leds' = [sw \in DD_Switches |-> DD_AllOff]
    /\ dd_pc' = [dd_pc EXCEPT !["main"] = "lock"]
    /\ UNCHANGED <<dd_monitor_only, dd_running, dd_lock, dd_written, dd_dancer, dd_pos,
                   dd_bu, dd_buff, dd_swbuf, dd_sent, dd_cmd>>
    /\ UNCHANGED ddOthers

\* stop(): sw.cleanup() sends set_all_leds((0,0,0), 0) unless monitor_only.
DD_Cleanup(sw) ==
    /\ prog = "disco" /\ dd_pc["main"] = "cleanup_" \o sw
    /\ dd_cmd' = IF dd_monitor_only THEN dd_cmd
                 ELSE [dd_cmd EXCEPT ![sw] = <<"set_all_leds", OffRGB, 0>>]
    /\ dd_pc' = [dd_pc EXCEPT !["main"] = IF sw = "unten" THEN "cleanup_oben" ELSE "done"]
    /\ UNCHANGED <<dd_monitor_only, dd_running, dd_lock, dd_leds, dd_written, dd_dancer,
                   dd_pos, dd_bu, dd_buff, dd_swbuf, dd_sent>>
    /\ UNCHANGED ddOthers

DD_Next ==
    \/ \E d \in DD_Dancers : DD_DancerCheck(d)
    \/ \E d \in DD_Dancers : DD_DancerWrite(d)
    \/ DD_FlusherCheck
    \/ \E t \in DD_Threads : DD_SendLock(t)
    \/ \E t \in DD_Threads : DD_SendCopy(t)
    \/ \E t \in DD_Threads, sw \in DD_Switches : DD_SetBuffer(t, sw)
    \/ \E t \in DD_Threads, sw \in DD_Switches : DD_FlushRead(t, sw)
    \/ \E t \in DD_Threads, sw \in DD_Switches : DD_FlushSend(t, sw)
    \/ DD_StopClear
    \/ DD_StopReset
    \/ \E sw \in DD_Switches : DD_Cleanup(sw)


(***************************************************************************)
(* doubleMusic.SwitchController: the update queue and its thread.          *)
(***************************************************************************)
LEDS_PER_SWITCH == 48

QUEUE_MAXSIZE == 10

\* A frame handed to update_leds: its number among the frames of the right
\* length and len(led_colors).
SC_FrameOf(id, len) == [id |-> id, len |-> len]

SC_NoFrame == SC_FrameOf(0, 0)

\* The lengths of led_colors the model hands to update_leds.
SC_Lens == {LEDS_PER_SWITCH, LEDS_PER_SWITCH - 1}

\* Queue.get / get_nowait: the frame at the head, the oldest.
queue_get(q) == Head(q)

\* An update thread that lets the driver's exception end the loop.
after_send_propagating(ok) == IF ok THEN "loop" ELSE "exit"

\* _update_loop: `except: pass` around set_led_color and around flush; the
\* thread is back at `while self.running` whatever the driver did.
after_send(ok) == "loop"

SC_Idle ==
    /\ sc_running = FALSE /\ sc_queue = <<>> /\ sc_calls = 0 /\ sc_latest = SC_NoFrame
    /\ sc_prod = "idle" /\ sc_arg = SC_NoFrame /\ sc_cons = "exit"
    /\ sc_led_colors = [frame |-> SC_NoFrame, latest |-> SC_NoFrame]
    /\ sc_shown = SC_NoFrame /\ sc_main = "done" /\ sc_sent = "none"

\* SwitchController.__init__: the queue is empty and the update thread runs.
SC_Init ==
    /\ sc_running = TRUE /\ sc_queue = <<>> /\ sc_calls = 0 /\ sc_latest = SC_NoFrame
    /\ sc_prod = "idle" /\ sc_arg = SC_NoFrame /\ sc_cons = "loop"
    /\ sc_led_colors = [frame |-> SC_NoFrame, latest |-> SC_NoFrame]
    /\ sc_shown = SC_NoFrame /\ sc_main = "run" /\ sc_sent = "none"

\* update_leds: a frame of the wrong length is dropped at once.
SC_UpdateLeds ==
    /\ prog = "queue" /\ sc_prod = "idle" /\ sc_main = "run" /\ sc_calls < MaxCalls
    /\ \E len \in SC_Lens :
         IF len # LEDS_PER_SWITCH
         THEN sc_arg' = SC_NoFrame /\ sc_prod' = "idle" /\ UNCHANGED sc_calls
         ELSE /\ sc_arg' = SC_FrameOf(sc_calls + 1, len)
              /\ sc_prod' = "full"
              /\ sc_calls' = sc_calls + 1
    /\ UNCHANGED <<sc_running, sc_queue, sc_latest, sc_cons, sc_led_colors, sc_shown, sc_main>>
    /\ UNCHANGED sc_sent
    /\ UNCHANGED scOthers

\* update_leds: if self.update_queue.full().
SC_CheckFull ==
    /\ prog = "queue" /\ sc_prod = "full"
    /\ sc_prod' = IF Len(sc_queue) >= QUEUE_MAXSIZE THEN "get_nowait" ELSE "put_nowait"
    /\ UNCHANGED <<sc_running, sc_queue, sc_calls, sc_latest, sc_arg, sc_cons, sc_led_colors,
                   sc_shown, sc_main>>
    /\ UNCHANGED sc_sent
    /\ UNCHANGED scOthers

\* update_leds: self.update_queue.get_nowait(); on queue.Empty the bare except
\* ends the call and the new frame is not enqueued.
SC_GetNowait ==
    /\ prog = "queue" /\ sc_prod = "get_nowait"
    /\ IF sc_queue = <<>>
       THEN sc_prod' = "idle" /\ sc_arg' = SC_NoFrame /\ UNCHANGED sc_queue
       ELSE sc_prod' = "put_nowait" /\ sc_queue' = Tail(sc_queue) /\ UNCHANGED sc_arg
    /\ UNCHANGED <<sc_running, sc_calls, sc_latest, sc_cons, sc_led_colors, sc_shown,
                   sc_main>>
    /\ UNCHANGED sc_sent
    /\ UNCHANGED scOthers

\* update_leds: self.update_queue.put_nowait(led_colors); on queue.Full the bare
\* except drops the frame.
SC_PutNowait ==
    /\ prog = "queue" /\ sc_prod = "put_nowait"
    /\ IF Len(sc_queue) >= QUEUE_MAXSIZE
       THEN UNCHANGED <<sc_queue, sc_latest>>
       ELSE sc_queue' = Append(sc_queue, sc_arg) /\ sc_latest' = sc_arg
    /\ sc_prod' = "idle"
    /\ sc_arg' = SC_NoFrame                                 \* the argument is dead from here
    /\ UNCHANGED <<sc_running, sc_calls, sc_cons, sc_led_colors, sc_shown, sc_main>>
    /\ UNCHANGED sc_sent
    /\ UNCHANGED scOthers

\* _update_loop: while self.running.
SC_LoopCheck ==
    /\ prog = "queue" /\ sc_cons = "loop"
    /\ sc_cons' = IF sc_running THEN "empty" ELSE "exit"
    /\ UNCHANGED <<sc_running, sc_queue, sc_calls, sc_latest, sc_prod, sc_arg, sc_led_colors,
                   sc_shown, sc_main>>
    /\ UNCHANGED sc_sent
    /\ UNCHANGED scOthers

\* _update_loop: if not self.update_queue.empty(), else sleep and loop.
SC_CheckEmpty ==
    /\ prog = "queue" /\ sc_cons = "empty"
    /\ sc_cons' = IF sc_queue # <<>> THEN "get" ELSE "loop"
    /\ UNCHANGED <<sc_running, sc_queue, sc_calls, sc_latest, sc_prod, sc_arg, sc_led_colors,
                   sc_shown, sc_main>>
    /\ UNCHANGED sc_sent
    /\ UNCHANGED scOthers

\* _update_loop: led_colors = self.update_queue.get(timeout=0.1).  With the
\* queue emptied in between the get times out and the except branch loops.
SC_Get ==
    /\ prog = "queue" /\ sc_cons = "get"
    /\ IF sc_queue = <<>>
       THEN sc_cons' = "loop" /\ UNCHANGED <<sc_queue, sc_led_colors>>
       ELSE /\ sc_led_colors' = [frame |-> queue_get(sc_queue), latest |-> sc_latest]
            /\ sc_queue' = Tail(sc_queue)
            /\ sc_cons' = "send"
    /\ UNCHANGED <<sc_running, sc_calls, sc_latest, sc_prod, sc_arg, sc_shown, sc_main>>
    /\ UNCHANGED sc_sent
    /\ UNCHANGED scOthers

\* _update_loop: set_led_color for the 48 LEDs and flush, every exception
\* swallowed; the controller shows the frame unless the driver failed.
SC_Send ==
    /\ prog = "queue" /\ sc_cons = "send"
    /\ \E ok \in BOOLEAN :
         /\ sc_shown' = IF ok THEN sc_led_colors.frame ELSE sc_shown
         /\ sc_sent' = IF ok THEN "ok" ELSE "raised"
         /\ sc_cons' = after_send(ok)
    /\ UNCHANGED <<sc_running, sc_queue, sc_calls, sc_latest, sc_prod, sc_arg, sc_led_colors,
                   sc_main>>
    /\ UNCHANGED scOthers

\* cleanup: self.running = False.
SC_CleanupStop ==
    /\ prog = "queue" /\ sc_main = "run"
    /\ sc_running' = FALSE
    /\ sc_main' = "join"
    /\ UNCHANGED <<sc_queue, sc_calls, sc_latest, sc_prod, sc_arg, sc_cons, sc_led_colors,
                   sc_shown>>
    /\ UNCHANGED sc_sent
    /\ UNCHANGED scOthers

\* cleanup: self.update_thread.join(timeout=2.0) returns, the thread ended or not.
SC_CleanupJoin ==
    /\ prog = "queue" /\ sc_main = "join"
    /\ sc_main' = "off"
    /\ UNCHANGED <<sc_running, sc_queue, sc_calls, sc_latest, sc_prod, sc_arg, sc_cons,
                   sc_led_colors, sc_shown>>
    /\ UNCHANGED sc_sent
    /\ UNCHANGED scOthers

\* cleanup: every LED is set to (0,0,0) and flushed, exceptions swallowed.
SC_CleanupOff ==
    /\ prog = "queue" /\ sc_main = "off"
    /\ \E ok \in BOOLEAN : sc_shown' = IF ok THEN SC_NoFrame ELSE sc_shown
    /\ sc_main' = "done"
    /\ UNCHANGED <<sc_running, sc_queue, sc_calls, sc_latest, sc_prod, sc_arg, sc_cons,
                   sc_led_colors>>
    /\ UNCHANGED sc_sent
    /\ UNCHANGED scOthers

SC_Next ==
    \/ SC_UpdateLeds
    \/ SC_CheckFull
    \/ SC_GetNowait
    \/ SC_PutNowait
    \/ SC_LoopCheck
    \/ SC_CheckEmpty
    \/ SC_Get
    \/ SC_Send
    \/ SC_CleanupStop
    \/ SC_CleanupJoin
    \/ SC_CleanupOff

(***************************************************************************)
(* Levels, decays and dB scales are exact rationals <<n, d>> with d > 0 in  *)
(* lowest terms, so equal values are equal tuples.                         *)
(***************************************************************************)
Abs(x) == IF x < 0 THEN -x ELSE x

RECURSIVE Gcd(_, _)
Gcd(a, b) == IF b = 0 THEN a ELSE Gcd(b, a % b)

Rat(n, d) ==
    LET g == Gcd(Abs(n), Abs(d))
        sgn == IF d < 0 THEN -1 ELSE 1
    IN <<(sgn * n) \div g, (sgn * d) \div g>>

RInt(k) == <<k, 1>>

RMul(a, b) ==
    LET g1 == Gcd(Abs(a[1]), b[2])
        g2 == Gcd(Abs(b[1]), a[2])
    IN Rat((a[1] \div g1) * (b[1] \div g2), (a[2] \div g2) * (b[2] \div g1))

RAdd(a, b) ==
    LET g == Gcd(a[2], b[2])
    IN Rat(a[1] * (b[2] \div g) + b[1] * (a[2] \div g), (a[2] \div g) * b[2])

RSub(a, b) == RAdd(a, <<-b[1], b[2]>>)

\* n1/d1 < n2/d2, by comparing the continued fractions (no product is formed).
RECURSIVE RLessQ(_, _, _, _)
RLessQ(n1, d1, n2, d2) ==
    LET q1 == n1 \div d1
        q2 == n2 \div d2
        r1 == n1 % d1
        r2 == n2 % d2
    IN IF q1 # q2 THEN q1 < q2
       ELSE IF r2 = 0 THEN FALSE
       ELSE IF r1 = 0 THEN TRUE
       ELSE RLessQ(d2, r2, d1, r1)

RLess(a, b) == RLessQ(a[1], a[2], b[1], b[2])

RLeq(a, b) == a = b \/ RLess(a, b)

\* Python's max(a, b) and min(a, b): the first argument unless the second is
\* strictly greater (smaller).
PyMax(a, b) == IF RLess(a, b) THEN b ELSE a

PyMin(a, b) == IF RLess(b, a) THEN b ELSE a

\* int(x) for x >= 0.
PyInt(a) == a[1] \div a[2]

\* round(x) for x >= 0: to the nearest integer, a tie to the even one.
PyRound(a) ==
    LET f == a[1] \div a[2]
        r == a[1] % a[2]
    IN IF 2 * r < a[2] THEN f
       ELSE IF 2 * r > a[2] THEN f + 1
       ELSE IF f % 2 = 0 THEN f ELSE f + 1

(***************************************************************************)
(* doubleMusic.py: the audio visualizer.                                   *)
(***************************************************************************)
FREQ_BANDS ==
    << <<20, 60>>, <<60, 100>>, <<100, 150>>, <<150, 200>>, <<200, 300>>, <<300, 400>>,
       <<400, 500>>, <<500, 700>>, <<700, 900>>, <<900, 1200>>, <<1200, 1500>>,
       <<1500, 2000>>, <<2000, 2500>>, <<2500, 3000>>, <<3000, 4000>>, <<4000, 5000>>,
       <<5000, 6000>>, <<6000, 7000>>, <<7000, 8000>>, <<8000, 10000>>, <<10000, 12000>>,
       <<12000, 14000>>, <<14000, 16000>>, <<16000, 20000>> >>

NUM_COLUMNS == 24

LEDS_PER_COLUMN == 4

DECAY_FAST == Rat(7, 10)

DECAY_SLOW == Rat(9, 10)

MIN_DB == -80

MAX_DB == -10

BASS_FREQ_MAX == 200

HUE_BASS == RInt(0)

HUE_HIGHS == Rat(200, 360)

\* A magnitude is 0 or 10^(e/20), given by e: its level in dB.
VZ_Mag(zero, e) == [zero |-> zero, e |-> e]

\* mag_to_db: mag = max(mag, 1e-12); 20 * log10(mag).
mag_to_db(mag) == IF mag.zero \/ mag.e < -240 THEN -240 ELSE mag.e

\* db_scale without its two early returns.
db_scale_unclamped(db) == Rat(db - MIN_DB, MAX_DB - MIN_DB)

\* db_scale without its second early return.
db_scale_no_ceiling(db) ==
    IF db <= MIN_DB THEN RInt(0) ELSE Rat(db - MIN_DB, MAX_DB - MIN_DB)

db_scale(db) ==
    IF db <= MIN_DB THEN RInt(0)
    ELSE IF db >= MAX_DB THEN RInt(1)
    ELSE Rat(db - MIN_DB, MAX_DB - MIN_DB)

\* FrequencyBandAnalyzer.__init__: self.decay.
analyzer_decay(freq_min, freq_max) ==
    IF freq_max < 200 THEN DECAY_SLOW
    ELSE IF freq_min > 5000 THEN DECAY_FAST
    ELSE LET t == Rat(freq_min - 200, 5000 - 200)
         IN RAdd(DECAY_SLOW, RMul(RSub(DECAY_FAST, DECAY_SLOW), t))

\* FrequencyBandAnalyzer.get_color_hue.
get_color_hue(freq_min, freq_max) ==
    IF freq_max <= 200 THEN HUE_BASS
    ELSE IF freq_min >= 5000 THEN HUE_HIGHS
    ELSE LET t == Rat(freq_min - 200, 5000 - 200)
         IN RAdd(HUE_BASS, RMul(RSub(HUE_HIGHS, HUE_BASS), t))

hsv_to_rgb255(h, s, v) ==
    IF s = RInt(0) THEN <<PyInt(RMul(v, RInt(255))), PyInt(RMul(v, RInt(255))),
                          PyInt(RMul(v, RInt(255)))>>
    ELSE LET i0 == PyInt(RMul(h, RInt(6)))
             f == RSub(RMul(h, RInt(6)), RInt(i0))
             p == RMul(v, RSub(RInt(1), s))
             q == RMul(v, RSub(RInt(1), RMul(s, f)))
             t == RMul(v, RSub(RInt(1), RMul(s, RSub(RInt(1), f))))
             i == i0 % 6
             rgb == IF i = 0 THEN <<v, t, p>>
                    ELSE IF i = 1 THEN <<q, v, p>>
                    ELSE IF i = 2 THEN <<p, v, t>>
                    ELSE IF i = 3 THEN <<p, q, v>>
                    ELSE IF i = 4 THEN <<t, p, v>>
                    ELSE <<v, p, q>>
         IN <<PyInt(RMul(rgb[1], RInt(255))), PyInt(RMul(rgb[2], RInt(255))),
              PyInt(RMul(rgb[3], RInt(255)))>>

\* FrequencyBandAnalyzer.analyze with no spectrum entry in the band, decaying twice.
analyze_empty_twice(prev_level, decay) == RMul(RMul(prev_level, decay), decay)

\* FrequencyBandAnalyzer.analyze, idx.size == 0: the new prev_level.
analyze_empty(prev_level, decay) == RMul(prev_level, decay)

\* FrequencyBandAnalyzer.analyze that forgets the decayed level.
analyze_band_no_hold(prev_level, decay, band_amplitude) == db_scale(mag_to_db(band_amplitude))

\* FrequencyBandAnalyzer.analyze with entries in the band: the new prev_level.
analyze_band(prev_level, decay, band_amplitude) ==
    LET band_db == mag_to_db(band_amplitude)
        level == db_scale(band_db)
    IN PyMax(level, RMul(prev_level, decay))

\* process_audio: the bass bands are boosted on a beat.
beat_boost(level, freq_max, is_beat, beat_strength) ==
    IF freq_max <= BASS_FREQ_MAX /\ is_beat
    THEN PyMin(RMul(level, RAdd(RInt(1), beat_strength)), RInt(1))
    ELSE level

\* A count that is truncated instead of rounded.
num_leds_lit_truncating(level) == PyInt(RMul(level, RInt(LEDS_PER_COLUMN)))

\* update_switches: num_leds_lit of a column.
num_leds_lit(level) == PyRound(RMul(level, RInt(LEDS_PER_COLUMN)))

\* A colour that is dimmed once a colour has been computed before.
column_rgb_drifting(col, level, is_beat, beat_strength) ==
    LET band == FREQ_BANDS[col + 1]
    IN hsv_to_rgb255(get_color_hue(band[1], band[2]), Rat(9, 10),
                     IF fn_args # <<>> THEN Rat(1, 2)
                     ELSE RAdd(Rat(1, 2), RMul(Rat(1, 2), level)))

\* update_switches: rgb of a column.
column_rgb(col, level, is_beat, beat_strength) ==
    LET band == FREQ_BANDS[col + 1]
        hue == get_color_hue(band[1], band[2])
        value0 == RAdd(Rat(1, 2), RMul(Rat(1, 2), level))
        onBeat == is_beat /\ band[2] <= BASS_FREQ_MAX
        saturation == IF onBeat THEN RInt(1) ELSE Rat(9, 10)
        value == IF onBeat
                 THEN PyMin(RMul(value0, RAdd(RInt(1), RMul(beat_strength, Rat(1, 2)))),
                            RInt(1))
                 ELSE value0
    IN hsv_to_rgb255(hue, saturation, value)

\* A buffer that starts white instead of off.
leds_white == [i \in 0..(LEDS_PER_SWITCH - 1) |-> <<255, 255, 255>>]

\* update_switches: [(0, 0, 0)] * LEDS_PER_SWITCH.
leds_fresh == [i \in 0..(LEDS_PER_SWITCH - 1) |-> OffRGB]

\* update_switches: the two buffers after the loop over the columns.
update_switches(levels, is_beat, beat_strength) ==
    LET lit(i, from) ==
            LET col == i % NUM_COLUMNS
            IN num_leds_lit(levels[col]) >= from + (i \div NUM_COLUMNS)
        rgb(i) == column_rgb(i % NUM_COLUMNS, levels[i % NUM_COLUMNS], is_beat, beat_strength)
    IN [sw \in {"unten", "oben"} |->
           [i \in 0..(LEDS_PER_SWITCH - 1) |->
               IF lit(i, IF sw = "unten" THEN 1 ELSE 3) THEN rgb(i) ELSE leds_fresh[i]]]

\* music.py
DECAY == Rat(85, 100)

\* The loop of build_led_index_map from column c on: idx is the number of LEDs
\* handed out so far.
RECURSIVE led_index_columns(_, _, _, _, _)
led_index_columns(c, idx, columns, leds_per_col, extra) ==
    IF c >= columns THEN <<>>
    ELSE LET this_col_len == leds_per_col + (IF extra[c] THEN 1 ELSE 0)
         IN <<[i \in 1..this_col_len |-> idx + i]>>
                \o led_index_columns(c + 1, idx + this_col_len, columns, leds_per_col, extra)

\* A map that gives the remaining LEDs to the last columns.
build_led_index_map_remainder_last(num_leds, columns) ==
    led_index_columns(0, 0, columns, num_leds \div columns,
                      [c \in 0..(columns - 1) |-> c >= columns - (num_leds % columns)])

\* build_led_index_map: leds_per_col = num_leds // columns, the first
\* num_leds % columns columns get one LED more.
build_led_index_map(num_leds, columns) ==
    led_index_columns(0, 0, columns, num_leds \div columns,
                      [c \in 0..(columns - 1) |-> c < num_leds % columns])

music_mag_to_db(mag) == IF mag.zero \/ mag.e < -240 THEN -240 ELSE mag.e

music_db_scale(db) ==
    IF db <= MIN_DB THEN RInt(0)
    ELSE IF db >= MAX_DB THEN RInt(1)
    ELSE Rat(db - MIN_DB, MAX_DB - MIN_DB)

\* music.py process_audio: np.maximum(self.prev_levels * DECAY, band_scaled).
music_smooth(prev_level, band_scaled) ==
    IF RLess(RMul(prev_level, DECAY), band_scaled) THEN band_scaled
    ELSE RMul(prev_level, DECAY)

\* The band magnitudes (after normalisation) of the model: silence, below the
\* 1e-12 floor, and the dB values scaled to 0, 1/5, 1/2, 1 and beyond 1.
VZ_Mags == {VZ_Mag(TRUE, 0)} \cup {VZ_Mag(FALSE, e) : e \in {-300, -66, -45, -10, 20}}

\* What the spectrum holds for the band of column vz_col.
VZ_Spectra == {[empty |-> TRUE, mag |-> VZ_Mag(TRUE, 0)]}
                  \cup {[empty |-> FALSE, mag |-> m] : m \in VZ_Mags}

\* (is_beat, beat_strength) as detect_beat returns them: no beat, or a beat with
\* a strength in (0.8, 1.6].
VZ_Beats == {<<FALSE, RInt(0)>>, <<TRUE, RInt(1)>>, <<TRUE, Rat(8, 5)>>}

\* The columns of the model: one band per branch of __init__ and get_color_hue.
VZ_Cols == {0, 4, 16, 17}

VZ_NoCall == [empty |-> FALSE, scaled |-> RInt(0), before |-> RInt(0), returned |-> RInt(0),
              level |-> RInt(0), decay |-> RInt(0), bass |-> FALSE]

VZ_Idle ==
    /\ vz_monitor_only = FALSE /\ vz_col = 0 /\ vz_prev_level = <<>> /\ vz_decay = <<>>
    /\ vz_frames = 0
    /\ vz_last = VZ_NoCall /\ vz_levels = <<>> /\ vz_leds = <<>> /\ vz_updated = FALSE

\* DualSwitchAudioVisualizer.__init__: 24 analyzers with prev_level 0.0.
VZ_Init ==
    /\ vz_monitor_only \in BOOLEAN
    /\ vz_col \in VZ_Cols
    /\ vz_prev_level = [c \in 0..(NUM_COLUMNS - 1) |-> RInt(0)]
    /\ vz_decay = [c \in 0..(NUM_COLUMNS - 1) |->
                       analyzer_decay(FREQ_BANDS[c + 1][1], FREQ_BANDS[c + 1][2])]
    /\ vz_frames = 0
    /\ vz_last = VZ_NoCall
    /\ vz_levels = [c \in 0..(NUM_COLUMNS - 1) |-> RInt(0)]
    /\ vz_leds = [sw \in {"unten", "oben"} |-> leds_fresh]
    /\ vz_updated = FALSE

\* EtherlightAudioVisualizer.__init__: prev_levels = zeros; one column is followed.
MU_Init ==
    /\ vz_monitor_only \in BOOLEAN
    /\ vz_col = 0
    /\ vz_prev_level = [c \in {0} |-> RInt(0)]
    /\ vz_decay = [c \in {0} |-> DECAY]
    /\ vz_frames = 0
    /\ vz_last = VZ_NoCall
    /\ vz_levels = <<>> /\ vz_leds = <<>> /\ vz_updated = FALSE

\* DualSwitchAudioVisualizer.process_audio: every analyzer analyzes the block,
\* the bass bands are boosted on a beat, update_switches builds both buffers
\* and hands them to update_leds (unless monitor_only).  The band of vz_col
\* sees the spectrum sp, every other band sees silence.
VZ_ProcessAudio ==
    /\ prog = "viz" /\ vz_frames < MaxFrames
    /\ \E sp \in VZ_Spectra, beat \in VZ_Beats :
         LET decayOf(c) == vz_decay[c]
             specOf(c) == IF c = vz_col THEN sp
                          ELSE [empty |-> FALSE, mag |-> VZ_Mag(TRUE, 0)]
             newPrev == [c \in 0..(NUM_COLUMNS - 1) |->
                            IF specOf(c).empty
                            THEN analyze_empty(vz_prev_level[c], decayOf(c))
                            ELSE analyze_band(vz_prev_level[c], decayOf(c), specOf(c).mag)]
             levels == [c \in 0..(NUM_COLUMNS - 1) |->
                           beat_boost(newPrev[c], FREQ_BANDS[c + 1][2], beat[1], beat[2])]
         IN /\ vz_prev_level' = newPrev
            /\ vz_last' = [empty |-> sp.empty,
                           scaled |-> IF sp.empty THEN RInt(0)
                                      ELSE db_scale(mag_to_db(sp.mag)),
                           before |-> vz_prev_level[vz_col],
                           returned |-> newPrev[vz_col],
                           level |-> levels[vz_col],
                           decay |-> decayOf(vz_col),
                           bass |-> FREQ_BANDS[vz_col + 1][2] <= BASS_FREQ_MAX /\ beat[1]]
            /\ IF vz_monitor_only
               THEN UNCHANGED <<vz_levels, vz_leds, vz_updated>>
               ELSE /\ vz_levels' = levels
                    /\ vz_leds' = update_switches(levels, beat[1], beat[2])
                    /\ vz_updated' = TRUE
    /\ vz_frames' = vz_frames + 1
    /\ UNCHANGED <<vz_monitor_only, vz_col, vz_decay>>
    /\ UNCHANGED vzOthers

\* EtherlightAudioVisualizer.process_audio: the smoothing of one column.
MU_ProcessAudio ==
    /\ prog = "music" /\ vz_frames < MaxFrames
    /\ \E mag \in VZ_Mags :
         LET band_scaled == music_db_scale(music_mag_to_db(mag))
             newPrev == music_smooth(vz_prev_level[0], band_scaled)
         IN /\ vz_prev_level' = [c \in {0} |-> newPrev]
            /\ vz_last' = [empty |-> FALSE, scaled |-> band_scaled,
                           before |-> vz_prev_level[0], returned |-> newPrev,
                           level |-> newPrev, decay |-> DECAY, bass |-> FALSE]
    /\ vz_frames' = vz_frames + 1
    /\ UNCHANGED <<vz_monitor_only, vz_col, vz_decay, vz_levels, vz_leds, vz_updated>>
    /\ UNCHANGED vzOthers

VZ_Next ==
    \/ VZ_ProcessAudio
    \/ MU_ProcessAudio

(***************************************************************************)
(* doubleMusic.BeatDetector.  Energies are integers; the clock ticks every   *)
(* 0.05 s.  A strength is <<sign, square>>: the square is an exact rational  *)
(* (the strength itself is a square root).                                  *)
(***************************************************************************)
BEAT_HISTORY_SIZE == 43

\* 0.1 s, in clock ticks of 0.05 s.
BEAT_MIN_INTERVAL == 2

\* What time.time() returns when the detector is constructed, in clock ticks.
BD_StartTime == 100

RECURSIVE SeqSum(_)
SeqSum(h) == IF h = <<>> THEN 0 ELSE Head(h) + SeqSum(Tail(h))

RECURSIVE SeqSumSq(_)
SeqSumSq(h) == IF h = <<>> THEN 0 ELSE Head(h) * Head(h) + SeqSumSq(Tail(h))

Sign(x) == IF x < 0 THEN -1 ELSE IF x = 0 THEN 0 ELSE 1

StrengthOf(sgn, sq) == <<sgn, sq>>

ZeroStrength == StrengthOf(0, RInt(0))

\* deque(maxlen=history_size).append: the oldest sample leaves a full deque.
deque_append(h, x) ==
    IF Len(h) >= BEAT_HISTORY_SIZE THEN Append(Tail(h), x) ELSE Append(h, x)

\* A detector that starts to decide after five samples.
warmed_up_early(h) == Len(h) >= 5

\* The negation of `len(self.bass_history) < 10`.
warmed_up(h) == Len(h) >= 10

\* N * (x - avg), with avg = np.mean(h) and N = len(h).
dev_times_n(h, x) == Len(h) * x - SeqSum(h)

\* N^2 * np.std(h)^2.
var_times_n2(h) == Len(h) * SeqSumSq(h) - SeqSum(h) * SeqSum(h)

\* A detector with a threshold of mean + 3.5 * std.
above_threshold_wide(h, x) ==
    /\ dev_times_n(h, x) > 0
    /\ 4 * dev_times_n(h, x) * dev_times_n(h, x) > 49 * var_times_n2(h)

\* bass_energy > threshold, threshold = avg + std * BEAT_THRESHOLD (1.5):
\* N(x - avg) > 1.5 * N * std, compared by the squares.
above_threshold(h, x) ==
    /\ dev_times_n(h, x) > 0
    /\ 4 * dev_times_n(h, x) * dev_times_n(h, x) > 9 * var_times_n2(h)

\* The square of (bass_energy - avg) / (threshold - avg), for a std above 0.
ratio_sq(h, x) ==
    Rat(4 * dev_times_n(h, x) * dev_times_n(h, x), 9 * var_times_n2(h))

\* A detector without the cap of 2.0.
strength_on_beat_uncapped(h, x) ==
    StrengthOf(1, IF var_times_n2(h) = 0 THEN RInt(4) ELSE ratio_sq(h, x))

\* min((bass_energy - avg) / (threshold - avg), 2.0) where bass_energy is above
\* the threshold; a std of 0 makes the quotient inf, and the minimum 2.0.
strength_on_beat(h, x) ==
    IF var_times_n2(h) = 0 THEN StrengthOf(1, RInt(4))
    ELSE IF RLess(ratio_sq(h, x), RInt(4))
         THEN StrengthOf(Sign(dev_times_n(h, x)), ratio_sq(h, x))
         ELSE StrengthOf(1, RInt(4))

\* A detector that forgets the decay.
strength_not_decayed(s) == s

\* self.beat_strength *= 0.8.
strength_decayed(s) == StrengthOf(s[1], RMul(s[2], Rat(16, 25)))

\* A detector that ignores the time of the last beat.
interval_ignored(current_time, last) == TRUE

\* current_time - self.last_beat_time > BEAT_MIN_INTERVAL.
interval_elapsed(current_time, last) == current_time - last > BEAT_MIN_INTERVAL

BD_Bases == {1, 3}

BD_Energies(v) == {v, 10 * v}

BD_Delays == {1, 2, 3}

\* Histories a detector has after n calls with the constant energy v.
BD_StartLens == {0} \cup (9..BEAT_HISTORY_SIZE)

BD_Call(called, base, energy, len_before, last_before, strength_before, is_beat, strength) ==
    [called |-> called, base |-> base, bass_energy |-> energy,
     len_before |-> len_before, last_before |-> last_before,
     strength_before |-> strength_before, is_beat |-> is_beat, strength |-> strength]

BD_Idle ==
    /\ bd_history = <<>> /\ bd_last_beat_time = 0 /\ bd_beat_strength = ZeroStrength
    /\ bd_now = 0 /\ bd_calls = 0
    /\ bd_ret = BD_Call(FALSE, 0, 0, 0, 0, ZeroStrength, FALSE, ZeroStrength)

\* BeatDetector.__init__, followed by n calls with the constant energy v.
BD_Init ==
    \E v \in BD_Bases, n \in BD_StartLens :
        /\ bd_history = [i \in 1..n |-> v]
        /\ bd_last_beat_time = 0
        /\ bd_beat_strength = ZeroStrength
        /\ bd_now = BD_StartTime
        /\ bd_calls = 0
        /\ bd_ret = BD_Call(FALSE, v, 0, 0, 0, ZeroStrength, FALSE, ZeroStrength)

\* detect_beat(bass_energy); time.time() is read only past the warm-up.
BD_DetectBeat ==
    /\ prog = "beat"
    /\ \E bass_energy \in BD_Energies(bd_ret.base), dt \in BD_Delays :
        LET h == deque_append(bd_history, bass_energy)
            current_time == bd_now + dt
            is_beat == /\ above_threshold(h, bass_energy)
                       /\ interval_elapsed(current_time, bd_last_beat_time)
            set == IF is_beat THEN strength_on_beat(h, bass_energy)
                   ELSE bd_beat_strength
        IN /\ bd_history' = h
           /\ IF ~warmed_up(h)
              THEN /\ dt = 1
                   /\ UNCHANGED <<bd_last_beat_time, bd_beat_strength, bd_now, bd_calls>>
                   /\ bd_ret' = BD_Call(TRUE, bd_ret.base, bass_energy, Len(bd_history),
                                        bd_last_beat_time, bd_beat_strength,
                                        FALSE, ZeroStrength)
              ELSE /\ bd_calls < MaxHotCalls
                   /\ bd_calls' = bd_calls + 1
                   /\ bd_now' = current_time
                   /\ bd_last_beat_time' =
                          IF is_beat THEN current_time ELSE bd_last_beat_time
                   /\ bd_beat_strength' = strength_decayed(set)
                   /\ bd_ret' = BD_Call(TRUE, bd_ret.base, bass_energy, Len(bd_history),
                                        bd_last_beat_time, bd_beat_strength,
                                        is_beat, strength_decayed(set))
    /\ UNCHANGED bdOthers

BD_Next == BD_DetectBeat

(***************************************************************************)
(* knightriderdouple: DualSwitchKnightRider with cols columns and two rows  *)
(* per switch, and the update thread of each SwitchController.  A grid is   *)
(* the set of its cells <<row, col>> that are not (0, 0, 0).                *)
(***************************************************************************)
KD_COLS == 3

KD_QUEUE_MAXSIZE == 10

KD_Switches == {"oben", "unten"}

\* self.row_oben = 1, self.row_unten = 0.
KD_Row(sw) == IF sw = "oben" THEN 1 ELSE 0

\* _empty_grid.
empty_grid == {}

\* _set_column: the grid of a switch, one cell lit if 0 <= col < cols.
set_column_grid(sw, col) ==
    IF 0 <= col /\ col < KD_COLS THEN {<<KD_Row(sw), col>>} ELSE empty_grid

\* The column of the lit cell of a grid (-1 for a grid without one).
grid_column(grid) == IF grid = {} THEN -1 ELSE (CHOOSE cell \in grid : TRUE)[2]

\* A way back that starts at the far end once more.
KD_Path_far_end_twice ==
    [i \in 1..(2 * KD_COLS) |-> IF i <= KD_COLS THEN i - 1 ELSE 2 * KD_COLS - i]

\* kinghtrider: range(total) followed by range(total - 2, -1, -1).
KD_Path ==
    [i \in 1..(2 * KD_COLS - 1) |-> IF i <= KD_COLS THEN i - 1 ELSE 2 * KD_COLS - 1 - i]

\* update_grid: a full queue loses its oldest grid, the new one is appended.
update_grid(q, grid) ==
    IF Len(q) >= KD_QUEUE_MAXSIZE THEN Append(Tail(q), grid) ELSE Append(q, grid)

KD_Idle ==
    /\ kd_pc = "idle" /\ kd_loops = 0 /\ kd_pos = 0 /\ kd_iteration = 0
    /\ kd_running = <<>> /\ kd_queue = <<>> /\ kd_thread = <<>> /\ kd_shown = <<>>
    /\ kd_sent = <<>> /\ kd_dispatched = <<>> /\ kd_interrupted = FALSE

\* DualSwitchKnightRider.__init__ and the call kinghtrider(loops=...).
KD_Init ==
    /\ kd_pc = "run"
    /\ kd_loops \in 1..MaxLoops
    /\ kd_pos = 0
    /\ kd_iteration = 0
    /\ kd_running = [sw \in KD_Switches |-> TRUE]
    /\ kd_queue = [sw \in KD_Switches |-> <<>>]
    /\ kd_thread = [sw \in KD_Switches |-> "loop"]
    /\ kd_shown = [sw \in KD_Switches |-> empty_grid]
    /\ kd_sent = <<>>
    /\ kd_dispatched = [sw \in KD_Switches |-> <<>>]
    /\ kd_interrupted = FALSE

\* kinghtrider: _set_column(c) for the next column of the path; after the last
\* column iteration += 1 and the loop ends with iteration >= loops.
KD_SetColumn ==
    /\ prog = "rider" /\ kd_pc = "run"
    /\ LET c == KD_Path[kd_pos + 1]
       IN kd_queue' = [sw \in KD_Switches |->
                           update_grid(kd_queue[sw], set_column_grid(sw, c))]
    /\ IF kd_pos + 1 = Len(KD_Path)
       THEN /\ kd_pos' = 0
            /\ kd_iteration' = kd_iteration + 1
            /\ kd_pc' = IF kd_iteration + 1 >= kd_loops THEN "cleanup_oben" ELSE "run"
       ELSE /\ kd_pos' = kd_pos + 1
            /\ UNCHANGED <<kd_iteration, kd_pc>>
    /\ kd_sent' = Append(kd_sent, KD_Path[kd_pos + 1])
    /\ UNCHANGED <<kd_loops, kd_running, kd_thread, kd_shown, kd_dispatched, kd_interrupted>>
    /\ UNCHANGED kdOthers

\* kinghtrider: KeyboardInterrupt; finally runs cleanup.
KD_Interrupt ==
    /\ prog = "rider" /\ kd_pc = "run"
    /\ kd_pc' = "cleanup_oben"
    /\ kd_interrupted' = TRUE
    /\ UNCHANGED <<kd_loops, kd_pos, kd_iteration, kd_running, kd_queue, kd_thread, kd_shown,
                   kd_sent, kd_dispatched>>
    /\ UNCHANGED kdOthers

\* cleanup: SwitchController.cleanup of one switch: running = False and a join
\* of at most one second.
KD_Cleanup(sw) ==
    /\ prog = "rider" /\ kd_pc = "cleanup_" \o sw
    /\ kd_running' = [kd_running EXCEPT ![sw] = FALSE]
    /\ kd_pc' = IF sw = "oben" THEN "cleanup_unten" ELSE "done"
    /\ UNCHANGED <<kd_loops, kd_pos, kd_iteration, kd_queue, kd_thread, kd_shown, kd_sent,
                   kd_dispatched, kd_interrupted>>
    /\ UNCHANGED kdOthers

\* _update_loop: while self.running; an empty queue sends the thread back here.
KD_LoopCheck(sw) ==
    /\ prog = "rider" /\ kd_thread[sw] = "loop"
    /\ ~kd_running[sw] \/ kd_queue[sw] # <<>>
    /\ kd_thread' = [kd_thread EXCEPT ![sw] = IF kd_running[sw] THEN "work" ELSE "exit"]
    /\ UNCHANGED <<kd_pc, kd_loops, kd_pos, kd_iteration, kd_running, kd_queue, kd_shown,
                   kd_sent, kd_dispatched, kd_interrupted>>
    /\ UNCHANGED kdOthers

\* _update_loop: grid = get(); set_led_color for every cell and flush.
KD_Update(sw) ==
    /\ prog = "rider" /\ kd_thread[sw] = "work"
    /\ kd_shown' = [kd_shown EXCEPT ![sw] = Head(kd_queue[sw])]
    /\ kd_queue' = [kd_queue EXCEPT ![sw] = Tail(kd_queue[sw])]
    /\ kd_thread' = [kd_thread EXCEPT ![sw] = "loop"]
    /\ kd_dispatched' = [kd_dispatched EXCEPT
                            ![sw] = Append(@, grid_column(Head(kd_queue[sw])))]
    /\ UNCHANGED <<kd_pc, kd_loops, kd_pos, kd_iteration, kd_running, kd_sent, kd_interrupted>>
    /\ UNCHANGED kdOthers

KD_Next ==
    \/ KD_SetColumn
    \/ KD_Interrupt
    \/ \E sw \in KD_Switches : KD_Cleanup(sw)
    \/ \E sw \in KD_Switches : KD_LoopCheck(sw)
    \/ \E sw \in KD_Switches : KD_Update(sw)

(***************************************************************************)
(* The rows the model runs animate_rows on: the disjoint rows of the       *)
(* scripts (odd and even LEDs), rows that share LEDs, a row that names an  *)
(* LED twice and the empty row.                                            *)
(***************************************************************************)
KR_LEDS == 1..6

KR_RowChoices ==
    { <<>>, <<1, 3, 5>>, <<2, 4, 6>>, <<3, 2, 1>>, <<1, 2, 1>>, <<1, 2, 3, 4, 5>> }

KR_RowLists == UNION {[1..k -> KR_RowChoices] : k \in 1..MaxRows}

KR_Idle ==
    /\ kr_variant = "none" /\ kr_rows = <<>> /\ kr_pc = "idle" /\ kr_step = 0
    /\ kr_errors = 0 /\ kr_merged = EmptyDict /\ kr_batch = <<>>
    /\ kr_batch_step = -1 /\ kr_final = "none" /\ kr_ctl = EmptyDict
    /\ kr_driver = "none" /\ kr_result = "none" /\ kr_fails = 0

\* run_sw: the LEDs are switched off, then animate_rows starts with step = 0.
KR_Start(rowlists, drivers) ==
    /\ kr_variant \in {"k2", "k3", "k31"}
    /\ kr_rows \in rowlists
    /\ kr_driver \in drivers
    /\ kr_pc = "begin"
    /\ kr_step = 0
    /\ kr_errors = 0
    /\ kr_merged = EmptyDict
    /\ kr_batch = <<>>
    /\ kr_batch_step = -1
    /\ kr_final = "none"
    /\ kr_ctl = [led \in KR_LEDS |-> OffRGB]
    /\ kr_result = "none"
    /\ kr_fails = 0

\* animate_rows on an Etherlight of etherlightwin.
KR_Init == KR_Start(KR_RowLists, {"etherlightwin"})

\* animate_rows on a controller object whose batch_set_leds may raise as well.
KR_ErrRowLists == { <<<<1, 3, 5>>>>, <<<<1, 2, 3, 4, 5>>, <<2, 4, 6>>>> }

KR_InitErr == KR_Start(KR_ErrRowLists, {"etherlightwin", "raising"})

\* The top of the loop body: merged_updates is created.
KR_BeginTick ==
    /\ prog = "kr" /\ kr_pc = "begin" /\ kr_step < MaxStep
    /\ kr_merged' = baseline(kr_variant, kr_rows)
    /\ kr_pc' = "merge"
    /\ UNCHANGED <<prog, kr_variant, kr_rows, kr_driver, kr_step, kr_errors, kr_batch,
                   kr_batch_step, kr_final, kr_ctl, kr_result, kr_fails>>
    /\ UNCHANGED krOthers

\* The loop over the rows.
KR_Merge ==
    /\ prog = "kr" /\ kr_pc = "merge"
    /\ kr_merged' = merge_rows(kr_variant, kr_merged, kr_rows, kr_step)
    /\ kr_pc' = "send"
    /\ UNCHANGED <<prog, kr_variant, kr_rows, kr_driver, kr_step, kr_errors, kr_batch,
                   kr_batch_step, kr_final, kr_ctl, kr_result, kr_fails>>
    /\ UNCHANGED krOthers

\* knightrider3.1: a False result and an exception both count in error_count;
\* an exception skips `step += 1`.
KR_Send31 ==
    /\ prog = "kr" /\ kr_pc = "send" /\ kr_variant = "k31"
    /\ IF DOMAIN kr_merged = {}
       THEN /\ kr_step' = kr_step + 1
            /\ kr_pc' = "begin"
            /\ UNCHANGED <<kr_errors, kr_batch, kr_batch_step, kr_ctl, kr_result, kr_fails>>
       ELSE /\ kr_batch' = led_colors("k31", kr_merged)
            /\ kr_batch_step' = kr_step
            /\ \E outcome \in KR_Outcomes(kr_driver) :
                 /\ kr_result' = outcome
                 /\ IF outcome = "ok"
                    THEN /\ kr_ctl' = driver_apply(kr_ctl, kr_batch')
                         /\ kr_errors' = 0
                         /\ kr_fails' = 0
                         /\ kr_step' = kr_step + 1
                         /\ kr_pc' = "begin"
                    ELSE /\ kr_ctl' = kr_ctl
                         /\ kr_errors' = kr_errors + 1
                         /\ kr_fails' = kr_fails + 1
                         /\ IF too_many_errors(kr_errors + 1)
                            THEN kr_pc' = "finally" /\ kr_step' = kr_step
                            ELSE /\ kr_pc' = "begin"
                                 /\ kr_step' = IF outcome = "false" THEN kr_step + 1
                                               ELSE kr_step
    /\ UNCHANGED <<prog, kr_variant, kr_rows, kr_driver, kr_merged, kr_final>>
    /\ UNCHANGED krOthers

\* knightrider3: the result of batch_set_leds is not read; only an exception
\* counts in retries, and the same step is tried again.
KR_Send3 ==
    /\ prog = "kr" /\ kr_pc = "send" /\ kr_variant = "k3"
    /\ IF DOMAIN kr_merged = {}
       THEN /\ kr_errors' = 0
            /\ kr_step' = kr_step + 1
            /\ kr_pc' = "begin"
            /\ UNCHANGED <<kr_batch, kr_batch_step, kr_ctl, kr_result, kr_fails>>
       ELSE /\ kr_batch' = led_colors("k3", kr_merged)
            /\ kr_batch_step' = kr_step
            /\ \E outcome \in KR_Outcomes(kr_driver) :
                 /\ kr_result' = outcome
                 /\ kr_ctl' = IF outcome = "ok" THEN driver_apply(kr_ctl, kr_batch')
                              ELSE kr_ctl
                 /\ kr_fails' = IF outcome = "ok" THEN 0 ELSE kr_fails + 1
                 /\ IF outcome = "raise"
                    THEN /\ kr_errors' = kr_errors + 1
                         /\ kr_step' = kr_step
                         /\ kr_pc' = IF too_many_retries(kr_errors + 1) THEN "finally"
                                     ELSE "begin"
                    ELSE /\ kr_errors' = 0
                         /\ kr_step' = kr_step + 1
                         /\ kr_pc' = "begin"
    /\ UNCHANGED <<prog, kr_variant, kr_rows, kr_driver, kr_merged, kr_final>>
    /\ UNCHANGED krOthers

\* knightrider2: one set_led_color per entry of merged_updates.
KR_Send2 ==
    /\ prog = "kr" /\ kr_pc = "send" /\ kr_variant = "k2"
    /\ kr_batch' = led_colors("k2", kr_merged)
    /\ kr_batch_step' = kr_step
    /\ \E success \in BOOLEAN :
         kr_ctl' = IF success THEN driver_apply(kr_ctl, kr_batch') ELSE kr_ctl
    /\ kr_step' = kr_step + 1
    /\ kr_pc' = "begin"
    /\ UNCHANGED <<prog, kr_variant, kr_rows, kr_driver, kr_merged, kr_errors, kr_final,
                   kr_result, kr_fails>>
    /\ UNCHANGED krOthers

\* KeyboardInterrupt anywhere in the loop.
KR_Interrupt ==
    /\ prog = "kr" /\ kr_pc \in {"begin", "merge", "send"}
    /\ kr_pc' = "finally"
    /\ kr_result' = "interrupt"
    /\ UNCHANGED <<prog, kr_variant, kr_rows, kr_driver, kr_step, kr_errors, kr_merged, kr_batch,
                   kr_batch_step, kr_final, kr_ctl, kr_fails>>
    /\ UNCHANGED krOthers

\* finally: all LEDs of the rows are switched off in one more driver call.
KR_Finally ==
    /\ prog = "kr" /\ kr_pc = "finally"
    /\ IF all_leds(kr_rows) = {}
       THEN UNCHANGED <<kr_final, kr_ctl>>
       ELSE /\ kr_final' = off_list(kr_variant, kr_rows)
            /\ \E success \in BOOLEAN :
                 kr_ctl' = IF success THEN driver_apply(kr_ctl, kr_final') ELSE kr_ctl
    /\ kr_pc' = "done"
    /\ UNCHANGED <<prog, kr_variant, kr_rows, kr_driver, kr_step, kr_errors, kr_merged, kr_batch,
                   kr_batch_step, kr_result, kr_fails>>
    /\ UNCHANGED krOthers

KR_Next ==
    \/ KR_BeginTick
    \/ KR_Merge
    \/ KR_Send31
    \/ KR_Send3
    \/ KR_Send2
    \/ KR_Interrupt
    \/ KR_Finally

(***************************************************************************)
(* dance_floor: SimpleDanceFloor.                                          *)
(***************************************************************************)
FL_Switches == {"unten", "oben"}

FL_Modes == {"alternating", "sync", "random"}

\* Two colours random_color_from_lut can return: LUT entry 0 at brightness 0.6
\* and LUT entry 255 at brightness 1.0.
FL_Colors == { <<153, 0, 0>>, <<50, 100, 255>> }

FL_NoCmd == <<"none">>

FL_NoColor == <<>>

\* _set_switch_color without its monitor_only branch.
set_switch_color_always(monitor_only, cmd, sw, color) ==
    [cmd EXCEPT ![sw] = <<"set_all_leds", color, 100>>]

\* _set_switch_color: what the driver objects have been asked for after the call.
set_switch_color(monitor_only, cmd, sw, color) ==
    IF monitor_only THEN cmd
    ELSE [cmd EXCEPT ![sw] = <<"set_all_leds", color, 100>>]

\* _set_switch_color: what has been printed after the call.
set_switch_print(monitor_only, log, sw, color) ==
    IF monitor_only THEN [log EXCEPT ![sw] = color] ELSE log

\* An alternating mode that colours SW_UNTEN at both positions.
FL_Targets_unten_twice(mode, thread, choice) ==
    CASE mode = "alternating" -> <<"unten">>
      [] mode = "sync" -> <<"unten", "oben">>
      [] OTHER -> <<choice>>

\* The switches one pass of the mode thread colours at the position thread.
FL_Targets(mode, thread, choice) ==
    CASE mode = "alternating" -> IF thread = "first" THEN <<"unten">> ELSE <<"oben">>
      [] mode = "sync" -> <<"unten", "oben">>
      [] OTHER -> <<choice>>

RECURSIVE FL_CmdAfter(_, _, _, _)
FL_CmdAfter(monitor_only, cmd, targets, color) ==
    IF targets = <<>> THEN cmd
    ELSE FL_CmdAfter(monitor_only, set_switch_color(monitor_only, cmd, Head(targets), color),
                     Tail(targets), color)

RECURSIVE FL_LogAfter(_, _, _, _)
FL_LogAfter(monitor_only, log, targets, color) ==
    IF targets = <<>> THEN log
    ELSE FL_LogAfter(monitor_only, set_switch_print(monitor_only, log, Head(targets), color),
                     Tail(targets), color)

FL_Idle ==
    /\ fl_monitor_only = FALSE /\ fl_mode = "none" /\ fl_running = FALSE
    /\ fl_thread = "exit" /\ fl_main = "done" /\ fl_sw = <<>> /\ fl_cmd = <<>>
    /\ fl_log = <<>> /\ fl_changes = <<>> /\ fl_late = 0

\* SimpleDanceFloor.__init__ followed by the thread start of start().
FL_Init ==
    /\ fl_monitor_only \in BOOLEAN
    /\ fl_mode \in FL_Modes
    /\ fl_running = TRUE
    /\ fl_thread = "check"
    /\ fl_main = "wait"
    /\ fl_sw = [sw \in FL_Switches |-> IF fl_monitor_only THEN "none" ELSE "etherlight"]
    /\ fl_cmd = [sw \in FL_Switches |-> FL_NoCmd]
    /\ fl_log = [sw \in FL_Switches |-> FL_NoColor]
    /\ fl_changes = <<>>
    /\ fl_late = 0

\* The mode thread reads _running: at the head of its loop and, in
\* _alternating_mode, between the two switches.
FL_ThreadCheck ==
    /\ prog = "floor"
    /\ fl_thread \in {"check", "recheck"}
    /\ fl_thread' = IF ~fl_running THEN "exit"
                    ELSE IF fl_thread = "check" THEN "first" ELSE "second"
    /\ UNCHANGED <<fl_monitor_only, fl_mode, fl_running, fl_main, fl_sw, fl_cmd, fl_log,
                   fl_changes, fl_late>>
    /\ UNCHANGED flOthers

\* The mode thread draws a colour and calls _set_switch_color.
FL_SetColor ==
    /\ prog = "floor"
    /\ fl_thread \in {"first", "second"}
    /\ Len(fl_changes) < MaxChanges
    /\ \E color \in FL_Colors, choice \in FL_Switches :
           LET targets == FL_Targets(fl_mode, fl_thread, choice)
           IN /\ fl_cmd' = FL_CmdAfter(fl_monitor_only, fl_cmd, targets, color)
              /\ fl_log' = FL_LogAfter(fl_monitor_only, fl_log, targets, color)
              /\ fl_changes' = fl_changes \o targets
              /\ fl_late' = IF fl_running THEN fl_late ELSE fl_late + Len(targets)
    /\ fl_thread' = IF fl_mode = "alternating" /\ fl_thread = "first"
                    THEN "recheck" ELSE "check"
    /\ UNCHANGED <<fl_monitor_only, fl_mode, fl_running, fl_main, fl_sw>>
    /\ UNCHANGED flOthers

\* KeyboardInterrupt in start(): stop() clears _running.
FL_Stop ==
    /\ prog = "floor"
    /\ fl_main = "wait"
    /\ fl_running' = FALSE
    /\ fl_main' = "off"
    /\ UNCHANGED <<fl_monitor_only, fl_mode, fl_thread, fl_sw, fl_cmd, fl_log, fl_changes,
                   fl_late>>
    /\ UNCHANGED flOthers

\* stop(): both switches are set dark unless monitor_only.
FL_StopOff ==
    /\ prog = "floor"
    /\ fl_main = "off"
    /\ fl_cmd' = IF fl_monitor_only THEN fl_cmd
                 ELSE [sw \in FL_Switches |-> <<"set_all_leds", OffRGB, 0>>]
    /\ fl_main' = "close"
    /\ UNCHANGED <<fl_monitor_only, fl_mode, fl_running, fl_thread, fl_sw, fl_log,
                   fl_changes, fl_late>>
    /\ UNCHANGED flOthers

\* stop(): both drivers are closed unless monitor_only.
FL_StopClose ==
    /\ prog = "floor"
    /\ fl_main = "close"
    /\ fl_cmd' = IF fl_monitor_only THEN fl_cmd
                 ELSE [sw \in FL_Switches |-> <<"close">>]
    /\ fl_main' = "done"
    /\ UNCHANGED <<fl_monitor_only, fl_mode, fl_running, fl_thread, fl_sw, fl_log,
                   fl_changes, fl_late>>
    /\ UNCHANGED flOthers

FL_Next ==
    \/ FL_ThreadCheck
    \/ FL_SetColor
    \/ FL_Stop
    \/ FL_StopOff
    \/ FL_StopClose

(***************************************************************************)
(* etherlightwin: Etherlight.write_command.                                *)
(***************************************************************************)
\* flush_led_cache: chunk_size.
chunk_size == 50

EL_Threads == 1..MaxCallers

\* What the transport does with a command: it takes it, it raises (send or
\* exec_command), or, on the exec_command path, the command exits non-zero.
EL_Outcomes(channel_active) ==
    IF channel_active THEN {"ok", "raise"} ELSE {"ok", "raise", "exit_nonzero"}

\* A write_command whose except clause lets the exception through.
write_command_propagating(outcome) ==
    IF outcome = "raise" THEN [pc |-> "raised", value |-> FALSE]
    ELSE [pc |-> "returned", value |-> outcome = "ok"]

\* write_command: True after a send, exit_status == 0 on the exec_command
\* path, False from the except clause; it always returns.
write_command(outcome) == [pc |-> "returned", value |-> outcome = "ok"]

\* flush_led_cache that forgets the lines after the last full chunk.
chunks_of_full_only(led_cache) ==
    [k \in 1..(Len(led_cache) \div chunk_size) |->
        SubSeq(led_cache, chunk_size * (k - 1) + 1, chunk_size * k)]

\* flush_led_cache: [led_cache[i:i + chunk_size] for i in range(0, len, chunk_size)].
chunks_of(led_cache) ==
    [k \in 1..((Len(led_cache) + chunk_size - 1) \div chunk_size) |->
        SubSeq(led_cache, chunk_size * (k - 1) + 1,
               IF chunk_size * k < Len(led_cache) THEN chunk_size * k ELSE Len(led_cache))]

\* Is a flush_led_cache call under way in some thread.
EL_Flushing == \E t \in EL_Threads : el_pc[t] # "idle" /\ el_flush[t]

EL_Idle ==
    /\ el_channel = FALSE /\ el_lock = 0 /\ el_led_cache = <<>> /\ el_pc = <<>>
    /\ el_flush = <<>> /\ el_ret = <<>> /\ el_calls = 0
    /\ el_cmd = <<>> /\ el_sent = <<>> /\ el_cached = 0 /\ el_overlap = FALSE

\* Etherlight.__init__ has returned: the channel is open, led_cache is empty.
EL_Init ==
    /\ el_channel = TRUE
    /\ el_lock = 0
    /\ el_led_cache = <<>>
    /\ el_pc = [t \in EL_Threads |-> "idle"]
    /\ el_flush = [t \in EL_Threads |-> FALSE]
    /\ el_ret = [t \in EL_Threads |-> <<"none", FALSE, 0>>]
    /\ el_calls = 0
    /\ el_cmd = [t \in EL_Threads |-> <<>>]
    /\ el_sent = <<>>
    /\ el_cached = 0
    /\ el_overlap = FALSE

\* cache_led_color: one more line in led_cache; the lines are numbered in the
\* order of the calls.
EL_CacheLedColor ==
    /\ prog = "driver"
    /\ el_cached < MaxCache
    /\ el_led_cache' = Append(el_led_cache, el_cached + 1)
    /\ el_cached' = el_cached + 1
    /\ el_overlap' = (el_overlap \/ EL_Flushing)
    /\ UNCHANGED <<el_channel, el_lock, el_pc, el_flush, el_ret, el_calls, el_cmd, el_sent>>
    /\ UNCHANGED elOthers

\* A thread calls write_command: from flush_led_cache (which has found led_cache
\* non-empty and has built its command) or from set_all_leds / batch_set_leds /
\* set_led_values.
EL_Call(t) ==
    /\ prog = "driver"
    /\ el_pc[t] = "idle"
    /\ el_calls + Cardinality({u \in EL_Threads : el_pc[u] # "idle"}) < MaxWriteCalls
    /\ \E from_flush \in BOOLEAN :
           /\ from_flush => el_led_cache # <<>>
           /\ el_flush' = [el_flush EXCEPT ![t] = from_flush]
           /\ el_cmd' = [el_cmd EXCEPT
                            ![t] = IF from_flush THEN chunks_of(el_led_cache) ELSE <<>>]
           /\ el_overlap' = (el_overlap \/ (from_flush /\ EL_Flushing))
    /\ el_pc' = [el_pc EXCEPT ![t] = "enter"]
    /\ UNCHANGED <<el_channel, el_lock, el_led_cache, el_ret, el_calls, el_sent, el_cached>>
    /\ UNCHANGED elOthers

\* A with block that is entered whoever holds the lock.
lock_acquire_unguarded(lock) == TRUE

\* Lock.acquire: the caller gets past it only when nobody holds the lock.
lock_acquire(lock) == lock = 0

\* write_command: with self._lock.
EL_Acquire(t) ==
    /\ prog = "driver"
    /\ el_pc[t] = "enter" /\ lock_acquire(el_lock)
    /\ el_lock' = t
    /\ el_pc' = [el_pc EXCEPT ![t] = "locked"]
    /\ UNCHANGED <<el_channel, el_led_cache, el_flush, el_ret, el_calls, el_cmd, el_sent,
                   el_cached, el_overlap>>
    /\ UNCHANGED elOthers

\* write_command: the command goes to the transport; leaving the with block
\* releases the lock, on a return and on an exception alike.
EL_Send(t) ==
    /\ prog = "driver"
    /\ el_pc[t] = "locked"
    /\ \E outcome \in EL_Outcomes(el_channel), still_active \in BOOLEAN :
           /\ el_pc' = [el_pc EXCEPT ![t] = write_command(outcome).pc]
           /\ el_ret' = [el_ret EXCEPT
                            ![t] = <<outcome, write_command(outcome).value, el_calls + 1>>]
           /\ el_channel' = IF outcome = "raise" THEN el_channel /\ still_active
                            ELSE el_channel
           /\ (outcome # "raise" => still_active)
    /\ el_sent' = IF el_flush[t] THEN Append(el_sent, el_cmd[t]) ELSE el_sent
    /\ el_lock' = 0
    /\ el_calls' = el_calls + 1
    /\ UNCHANGED <<el_led_cache, el_flush, el_cmd, el_cached, el_overlap>>
    /\ UNCHANGED elOthers

\* The caller goes on: flush_led_cache empties led_cache, whatever
\* write_command returned.
EL_Return(t) ==
    /\ prog = "driver"
    /\ el_pc[t] = "returned"
    /\ el_led_cache' = IF el_flush[t] THEN <<>> ELSE el_led_cache
    /\ el_pc' = [el_pc EXCEPT ![t] = "idle"]
    /\ el_flush' = [el_flush EXCEPT ![t] = FALSE]
    /\ el_cmd' = [el_cmd EXCEPT ![t] = <<>>]
    /\ UNCHANGED <<el_channel, el_lock, el_ret, el_calls, el_sent, el_cached, el_overlap>>
    /\ UNCHANGED elOthers

EL_Next ==
    \/ EL_CacheLedColor
    \/ \E t \in EL_Threads : EL_Call(t)
    \/ \E t \in EL_Threads : EL_Acquire(t)
    \/ \E t \in EL_Threads : EL_Send(t)
    \/ \E t \in EL_Threads : EL_Return(t)

(***************************************************************************)
(* The pure functions of the scripts, applied to one input each.           *)
(***************************************************************************)
FN_Idle == fn_name = "none" /\ fn_args = <<>> /\ fn_out = <<>>

FN_None == <<"none">>

FN_Ret(v) == <<"ret", v>>

\* A row of n LEDs, as the rows of the scripts are: distinct port numbers.
FN_Row(n) == [i \in 1..n |-> 2 * i - 1]

FN_Steps == (0 - MaxFnStep)..MaxFnStep

FN_Dbs == (MIN_DB - MaxDbMargin)..(MAX_DB + MaxDbMargin)

\* Inputs of the colour of a column: a band per branch of get_color_hue, the
\* levels 1/2 and 1, and what detect_beat can return.
FN_ColourInputs ==
    {<<col, level, beat[1], beat[2]>> :
        col \in {0, 4, 17}, level \in {Rat(1, 2), RInt(1)}, beat \in VZ_Beats}

\* The steps one turn of the head takes, from step on: 2n - 1 of them.
FN_Window(step, n) ==
    [k \in 1..(IF n <= 1 THEN 2 ELSE 2 * n - 1) |-> compute_pingpong_pos(step + k - 1, n)]

FN_Init ==
    /\ \/ /\ fn_name = "column_to_leds"
          /\ fn_args \in (0..(NUM_COLUMNS_DD - 1)) \X (0..(LEDS_PER_COLUMN_DD - 1))
       \/ /\ fn_name \in {"db_scale", "music_db_scale"}
          /\ fn_args \in FN_Dbs \X FN_Dbs
       \/ /\ fn_name = "compute_pingpong_pos"
          /\ fn_args \in FN_Steps \X (0..MaxRowLen)
       \/ /\ fn_name = "build_frame_for_row"
          /\ fn_args \in {<<FN_Row(n), step>> : n \in 1..MaxRowLen, step \in FN_Steps}
       \/ /\ fn_name = "column_rgb"
          /\ fn_args = <<>>
       \/ /\ fn_name = "build_led_index_map"
          /\ fn_args \in (0..MaxLeds) \X (1..MaxColumns)
       \/ /\ fn_name = "flush_led_cache"
          /\ fn_args \in {<<[i \in 1..n |-> i]>> : n \in 0..MaxFlushLen}
    /\ fn_out = FN_None

\* A dancer looks its cell up in _column_to_leds.
FN_ColumnToLeds ==
    /\ prog = "fn" /\ fn_name = "column_to_leds" /\ fn_out = FN_None
    /\ fn_out' = FN_Ret(column_to_leds(fn_args[1], fn_args[2]))
    /\ UNCHANGED <<fn_name, fn_args>>
    /\ UNCHANGED fnOthers

\* db_scale of doubleMusic.py and of music.py, on two dB values.
FN_DbScale ==
    /\ prog = "fn" /\ fn_name \in {"db_scale", "music_db_scale"} /\ fn_out = FN_None
    /\ fn_out' = IF fn_name = "db_scale"
                 THEN FN_Ret(<<db_scale(fn_args[1]), db_scale(fn_args[2])>>)
                 ELSE FN_Ret(<<music_db_scale(fn_args[1]), music_db_scale(fn_args[2])>>)
    /\ UNCHANGED <<fn_name, fn_args>>
    /\ UNCHANGED fnOthers

\* compute_pingpong_pos at the steps of one turn of the head.
FN_PingPong ==
    /\ prog = "fn" /\ fn_name = "compute_pingpong_pos" /\ fn_out = FN_None
    /\ fn_out' = FN_Ret(FN_Window(fn_args[1], fn_args[2]))
    /\ UNCHANGED <<fn_name, fn_args>>
    /\ UNCHANGED fnOthers

\* build_frame_for_row of knightrider3.1.py.
FN_BuildFrame ==
    /\ prog = "fn" /\ fn_name = "build_frame_for_row" /\ fn_out = FN_None
    /\ fn_out' = FN_Ret(build_frame_for_row("k31", fn_args[1], fn_args[2]))
    /\ UNCHANGED <<fn_name, fn_args>>
    /\ UNCHANGED fnOthers

\* update_switches computes the colour of one more column.
FN_ColumnRgb ==
    /\ prog = "fn" /\ fn_name = "column_rgb" /\ Len(fn_args) < MaxEvals
    /\ \E in \in FN_ColourInputs :
           /\ fn_args' = Append(fn_args, in)
           /\ fn_out' = FN_Ret((IF fn_out = FN_None THEN <<>> ELSE fn_out[2])
                               \o <<column_rgb(in[1], in[2], in[3], in[4])>>)
    /\ UNCHANGED fn_name
    /\ UNCHANGED fnOthers

\* flush_led_cache builds its command from a led_cache of any length; with an
\* empty led_cache it returns before it builds one.
FN_FlushLedCache ==
    /\ prog = "fn" /\ fn_name = "flush_led_cache" /\ fn_out = FN_None
    /\ fn_out' = FN_Ret(IF fn_args[1] = <<>> THEN <<>> ELSE chunks_of(fn_args[1]))
    /\ UNCHANGED <<fn_name, fn_args>>
    /\ UNCHANGED fnOthers

\* EtherlightAudioVisualizer.__init__: self.col_map = build_led_index_map(...).
FN_BuildLedIndexMap ==
    /\ prog = "fn" /\ fn_name = "build_led_index_map" /\ fn_out = FN_None
    /\ fn_out' = FN_Ret(build_led_index_map(fn_args[1], fn_args[2]))
    /\ UNCHANGED <<fn_name, fn_args>>
    /\ UNCHANGED fnOthers

FN_Next ==
    \/ FN_BuildLedIndexMap
    \/ FN_FlushLedCache
    \/ FN_ColumnToLeds
    \/ FN_DbScale
    \/ FN_PingPong
    \/ FN_BuildFrame
    \/ FN_ColumnRgb

(***************************************************************************)
(* main.py: MainWindow and the subprocesses it starts and stops.           *)
(***************************************************************************)
MW_Pids == 1..MaxProcs

\* How stopping one running subprocess can go: it exits within the wait after
\* terminate(); the wait times out and kill() ends it; the wait after kill()
\* times out as well; terminate() itself raises.
MW_Outcomes == {"exits", "killed", "kill_timeout", "terminate_raises"}

\* prune_finished_processes: the processes whose poll() is None, in order.
prune_finished_processes(processes, alive) == SelectSeq(processes, LAMBDA p : alive[p])

\* kill() for every subprocess terminate() was sent to.
kill_sent_always(outcome) == outcome # "terminate_raises"

\* stop_all_processes: kill() is called in the handler of TimeoutExpired.
kill_sent(outcome) == outcome \in {"killed", "kill_timeout"}

\* Does the subprocess still run when its turn of the loop is over.
alive_after(outcome) == outcome \in {"kill_timeout", "terminate_raises"}

\* self.processes without p (list.remove).
list_remove(processes, p) == SelectSeq(processes, LAMBDA q : q # p)

MW_Idle ==
    /\ mw_processes = <<>> /\ mw_alive = <<>> /\ mw_started = 0 /\ mw_attempts = 0
    /\ mw_pc = "idle" /\ mw_todo = <<>> /\ mw_term = {} /\ mw_timeout = {} /\ mw_kill = {}
    /\ mw_returned = FALSE

\* MainWindow.__init__: self.processes = [].
MW_Init ==
    /\ mw_processes = <<>>
    /\ mw_alive = [p \in MW_Pids |-> FALSE]
    /\ mw_started = 0 /\ mw_attempts = 0
    /\ mw_pc = "idle" /\ mw_todo = <<>>
    /\ mw_term = {} /\ mw_timeout = {} /\ mw_kill = {}
    /\ mw_returned = FALSE

\* start_process: prune, then Popen; the new process is appended unless Popen
\* raises.
MW_StartProcess ==
    /\ prog = "main" /\ mw_pc = "idle"
    /\ mw_attempts < MaxStarts /\ mw_started < MaxProcs
    /\ mw_attempts' = mw_attempts + 1
    /\ \E popen_ok \in BOOLEAN :
         LET pruned == prune_finished_processes(mw_processes, mw_alive)
             p == mw_started + 1
         IN IF popen_ok
            THEN /\ mw_processes' = Append(pruned, p)
                 /\ mw_alive' = [mw_alive EXCEPT ![p] = TRUE]
                 /\ mw_started' = p
            ELSE /\ mw_processes' = pruned
                 /\ UNCHANGED <<mw_alive, mw_started>>
    /\ mw_returned' = FALSE
    /\ UNCHANGED <<mw_pc, mw_todo, mw_term, mw_timeout, mw_kill>>
    /\ UNCHANGED mwOthers

\* stop_all_processes up to the loop: prune; return when nothing is left.
MW_StopBegin ==
    /\ prog = "main" /\ mw_pc = "idle"
    /\ LET pruned == prune_finished_processes(mw_processes, mw_alive)
       IN /\ mw_processes' = pruned
          /\ IF pruned = <<>>
             THEN /\ mw_returned' = TRUE
                  /\ UNCHANGED <<mw_pc, mw_todo>>
             ELSE /\ mw_returned' = FALSE
                  /\ mw_pc' = "loop"
                  /\ mw_todo' = pruned
    /\ UNCHANGED <<mw_alive, mw_started, mw_attempts, mw_term, mw_timeout, mw_kill>>
    /\ UNCHANGED mwOthers

\* One turn of the loop over list(self.processes): poll, terminate, wait, kill
\* on TimeoutExpired, wait; except Exception; finally remove p from the list.
MW_StopOne ==
    /\ prog = "main" /\ mw_pc = "loop" /\ mw_todo # <<>>
    /\ LET p == Head(mw_todo)
       IN /\ IF mw_alive[p]
             THEN \E outcome \in MW_Outcomes :
                      /\ mw_term' = mw_term \cup {p}
                      /\ mw_timeout' = IF outcome \in {"killed", "kill_timeout"}
                                       THEN mw_timeout \cup {p} ELSE mw_timeout
                      /\ mw_kill' = IF kill_sent(outcome) THEN mw_kill \cup {p} ELSE mw_kill
                      /\ mw_alive' = [mw_alive EXCEPT ![p] = alive_after(outcome)]
             ELSE UNCHANGED <<mw_term, mw_timeout, mw_kill, mw_alive>>
          /\ mw_processes' = list_remove(mw_processes, p)
    /\ mw_todo' = Tail(mw_todo)
    /\ UNCHANGED <<mw_started, mw_attempts, mw_pc, mw_returned>>
    /\ UNCHANGED mwOthers

\* stop_all_processes after the loop: the message box, then the return.
MW_StopEnd ==
    /\ prog = "main" /\ mw_pc = "loop" /\ mw_todo = <<>>
    /\ mw_pc' = "idle"
    /\ mw_returned' = TRUE
    /\ UNCHANGED <<mw_processes, mw_alive, mw_started, mw_attempts, mw_todo, mw_term,
                   mw_timeout, mw_kill>>
    /\ UNCHANGED mwOthers

\* A subprocess ends by itself.
MW_ChildExit ==
    /\ prog = "main"
    /\ \E p \in MW_Pids :
         /\ mw_alive[p]
         /\ mw_alive' = [mw_alive EXCEPT ![p] = FALSE]
    /\ UNCHANGED <<mw_processes, mw_started, mw_attempts, mw_pc, mw_todo, mw_term,
                   mw_timeout, mw_kill, mw_returned>>
    /\ UNCHANGED mwOthers

MW_Next ==
    \/ MW_StartProcess
    \/ MW_StopBegin
    \/ MW_StopOne
    \/ MW_StopEnd
    \/ MW_ChildExit

(***************************************************************************)
(* The specifications.                                                     *)
(***************************************************************************)
InitKR ==
    /\ prog = "kr" /\ KR_Init
    /\ DD_Idle /\ SC_Idle /\ VZ_Idle /\ BD_Idle /\ KD_Idle /\ FL_Idle /\ EL_Idle /\ FN_Idle /\ MW_Idle

SpecKR == InitKR /\ [][KR_Next]_vars

InitKRErr ==
    /\ prog = "kr" /\ KR_InitErr
    /\ DD_Idle /\ SC_Idle /\ VZ_Idle /\ BD_Idle /\ KD_Idle /\ FL_Idle /\ EL_Idle /\ FN_Idle /\ MW_Idle

SpecKRErr == InitKRErr /\ [][KR_Next]_vars

InitDisco ==
    /\ prog = "disco" /\ DD_Init
    /\ KR_Idle /\ SC_Idle /\ VZ_Idle /\ BD_Idle /\ KD_Idle /\ FL_Idle /\ EL_Idle /\ FN_Idle /\ MW_Idle

SpecDisco == InitDisco /\ [][DD_Next]_vars

InitQueue ==
    /\ prog = "queue" /\ SC_Init
    /\ KR_Idle /\ DD_Idle /\ VZ_Idle /\ BD_Idle /\ KD_Idle /\ FL_Idle /\ EL_Idle /\ FN_Idle /\ MW_Idle

SpecQueue == InitQueue /\ [][SC_Next]_vars

InitAudio ==
    /\ \/ prog = "viz" /\ VZ_Init
       \/ prog = "music" /\ MU_Init
    /\ KR_Idle /\ DD_Idle /\ SC_Idle /\ BD_Idle /\ KD_Idle /\ FL_Idle /\ EL_Idle /\ FN_Idle /\ MW_Idle

SpecAudio == InitAudio /\ [][VZ_Next]_vars

InitBeat ==
    /\ prog = "beat" /\ BD_Init
    /\ KR_Idle /\ DD_Idle /\ SC_Idle /\ VZ_Idle /\ KD_Idle /\ FL_Idle /\ EL_Idle /\ FN_Idle /\ MW_Idle

SpecBeat == InitBeat /\ [][BD_Next]_vars

InitRider ==
    /\ prog = "rider" /\ KD_Init
    /\ KR_Idle /\ DD_Idle /\ SC_Idle /\ VZ_Idle /\ BD_Idle /\ FL_Idle /\ EL_Idle /\ FN_Idle /\ MW_Idle

SpecRider == InitRider /\ [][KD_Next]_vars

\* The main thread is scheduled again and again: time.sleep and the join with
\* a timeout both return.
SpecRiderFair ==
    /\ SpecRider
    /\ WF_vars(KD_SetColumn)
    /\ \A sw \in KD_Switches : WF_vars(KD_Cleanup(sw))

InitDriver ==
    /\ prog = "driver" /\ EL_Init
    /\ KR_Idle /\ DD_Idle /\ SC_Idle /\ VZ_Idle /\ BD_Idle /\ KD_Idle /\ FL_Idle /\ FN_Idle /\ MW_Idle

SpecDriver == InitDriver /\ [][EL_Next]_vars

InitFunctions ==
    /\ prog = "fn" /\ FN_Init
    /\ KR_Idle /\ DD_Idle /\ SC_Idle /\ VZ_Idle /\ BD_Idle /\ KD_Idle /\ FL_Idle /\ EL_Idle /\ MW_Idle

SpecFunctions == InitFunctions /\ [][FN_Next]_vars

InitFloor ==
    /\ prog = "floor" /\ FL_Init
    /\ KR_Idle /\ DD_Idle /\ SC_Idle /\ VZ_Idle /\ BD_Idle /\ KD_Idle /\ EL_Idle /\ FN_Idle /\ MW_Idle

SpecFloor == InitFloor /\ [][FL_Next]_vars

InitMain ==
    /\ prog = "main" /\ MW_Init
    /\ KR_Idle /\ DD_Idle /\ SC_Idle /\ VZ_Idle /\ BD_Idle /\ KD_Idle /\ FL_Idle /\ EL_Idle
    /\ FN_Idle

SpecMain == InitMain /\ [][MW_Next]_vars

\* flush_led_cache: its callers and the command it builds, side by side.
SpecFlush == (InitDriver \/ InitFunctions) /\ [][EL_Next \/ FN_Next]_vars

\* The programs that take monitor_only, side by side.
SpecMonitor ==
    (InitDisco \/ InitAudio \/ InitFloor) /\ [][DD_Next \/ VZ_Next \/ FL_Next]_vars

\* The programs that build a frame per tick, side by side.
SpecFrames == (InitKR \/ InitAudio) /\ [][KR_Next \/ VZ_Next]_vars

(***************************************************************************)
(* What the claims about the knight rider speak of.                        *)
(***************************************************************************)
\* The colour names one tick submits to led: the try_set calls of every row whose
\* index lies in the row and names led.
SubmittedNames(v, rows, step, led) ==
    UNION {{sub[2] : sub \in {x \in Range(submissions(v, step, Len(rows[r]))) :
                                /\ 0 <= x[1] /\ x[1] < Len(rows[r])
                                /\ rows[r][x[1] + 1] = led}} : r \in DOMAIN rows}

HighestName(v, S) ==
    CHOOSE c \in S : \A d \in S : COLOR_PRIORITY(v)[d] <= COLOR_PRIORITY(v)[c]

PermuteSeq(s, p) == [i \in DOMAIN s |-> s[p[i]]]

\* The merged frame after the first k rows of a tick.
MergedPrefix(v, rows, step, k) ==
    merge_rows(v, baseline(v, rows), SubSeq(rows, 1, k), step)

FrameOfRow(v, row, step) ==
    IF v = "k2"
    THEN [led \in DOMAIN build_frame_for_row_2(row, step) |->
              inv_color_map(build_frame_for_row_2(row, step)[led])]
    ELSE build_frame_for_row(v, row, step)

MergeOne(v, merged, led, name) ==
    IF v = "k31" THEN merge_frame_31(merged, (led :> name))
    ELSE IF v = "k3" THEN merge_frame_3(merged, (led :> name))
         ELSE merge_frame_2(merged, (led :> COLOR_MAP_2[name]))

\* C1: in a composed frame every LED holds the colour name of the highest
\* COLOR_PRIORITY among the names the tick submitted to it (and 'off', the
\* baseline); the frame is the same for every order of the rows and (in
\* knightrider3 and knightrider3.1) for every order of the try_set calls of a
\* row, and two submissions of priorities p1 < p2 to one LED leave the p2 name in
\* either order.
C1_PriorityLaw ==
    (prog = "kr" /\ kr_pc = "send") =>
        LET v == kr_variant
            prio == COLOR_PRIORITY(v)
        IN /\ \A led \in DOMAIN kr_merged :
                kr_merged[led][1] =
                    HighestName(v, SubmittedNames(v, kr_rows, kr_step, led)
                                    \cup (IF v = "k2" THEN {} ELSE {"off"}))
           /\ \A p \in Permutations(DOMAIN kr_rows) :
                merge_rows(v, baseline(v, kr_rows), PermuteSeq(kr_rows, p), kr_step)
                    = kr_merged
           \* (the try_set calls of a row are gone through once per rows and step:
           \* build_frame_for_row does not read error_count)
           /\ kr_errors = 0 => \A r \in DOMAIN kr_rows :
                LET row == kr_rows[r]
                    subs == submissions(v, kr_step, Len(row))
                IN /\ v # "k2" =>
                        \A p \in Permutations(DOMAIN subs) :
                            try_set_all(EmptyDict, row, PermuteSeq(subs, p), prio)
                                = try_set_all(EmptyDict, row, subs, prio)
                   /\ \A i, j \in 0..(Len(row) - 1) :
                        row[i + 1] = row[j + 1] => \A a, b \in DOMAIN prio :
                          prio[a] < prio[b] =>
                            /\ try_set(try_set(EmptyDict, row, i, a, prio), row, j, b, prio)
                                   [row[i + 1]] = b
                            /\ try_set(try_set(EmptyDict, row, j, b, prio), row, i, a, prio)
                                   [row[i + 1]] = b

\* C1 witness: knightrider3.1 has composed a frame in which an LED got a lower
\* name from the first row and a higher one from the second, and holds the higher.
C1_Witness ==
    /\ prog = "kr" /\ kr_pc = "send" /\ kr_variant = "k31" /\ Len(kr_rows) = 2
    /\ \E led \in DOMAIN kr_merged :
        LET f1 == build_frame_for_row("k31", kr_rows[1], kr_step)
            f2 == build_frame_for_row("k31", kr_rows[2], kr_step)
        IN /\ led \in DOMAIN f1 /\ led \in DOMAIN f2
           /\ COLOR_PRIORITY_31[f1[led]] < COLOR_PRIORITY_31[f2[led]]
           /\ kr_merged[led][1] = f2[led]

\* C2: a submission whose priority is equal to or lower than that of the entry
\* stored for its LED leaves the frame as it is, in try_set and in the merge of
\* animate_rows: for the rows of the tick as they are merged one after the other,
\* and for any further submission to the composed frame.
C2_NoOverwrite ==
    (prog = "kr" /\ kr_pc = "send") =>
        LET v == kr_variant
            prio == COLOR_PRIORITY(v)
        IN /\ \A k \in 1..Len(kr_rows) :
                LET before == MergedPrefix(v, kr_rows, kr_step, k - 1)
                    after == MergedPrefix(v, kr_rows, kr_step, k)
                    frame == FrameOfRow(v, kr_rows[k], kr_step)
                IN \A led \in DOMAIN before :
                     (led \in DOMAIN frame => prio[frame[led]] <= prio[before[led][1]])
                         => (led \in DOMAIN after /\ after[led] = before[led])
           /\ \A led \in DOMAIN kr_merged : \A c \in DOMAIN prio :
                prio[c] <= prio[kr_merged[led][1]]
                    => MergeOne(v, kr_merged, led, c) = kr_merged
           /\ \A r \in DOMAIN kr_rows :
                LET row == kr_rows[r]
                    frame == try_set_all(EmptyDict, row,
                                         submissions(v, kr_step, Len(row)), prio)
                IN \A i \in 0..(Len(row) - 1) : \A c \in DOMAIN prio :
                     (row[i + 1] \in DOMAIN frame /\ prio[c] <= prio[frame[row[i + 1]]])
                         => try_set(frame, row, i, c, prio) = frame

\* C2 witness: the second row submits to an LED a name whose priority is equal to
\* that of the entry the first row left there, and another one a lower name.
C2_Witness ==
    /\ prog = "kr" /\ kr_pc = "send" /\ Len(kr_rows) = 2
    /\ LET f1 == FrameOfRow(kr_variant, kr_rows[1], kr_step)
           f2 == FrameOfRow(kr_variant, kr_rows[2], kr_step)
           prio == COLOR_PRIORITY(kr_variant)
       IN /\ \E led \in DOMAIN f1 \cap DOMAIN f2 :
                prio[f2[led]] = prio[f1[led]] /\ prio[f1[led]] > 0
          /\ \E led \in DOMAIN f1 \cap DOMAIN f2 : prio[f2[led]] < prio[f1[led]]

\* The LEDs that are head or trail of some row in a step.
HeadTrailLeds(v, rows, step) ==
    {led \in all_leds(rows) :
        \E r \in DOMAIN rows :
            LET n == Len(rows[r])
                pos == compute_pingpong_pos(step, n)
                d == direction(step, n)
            IN \E k \in 0..(IF v = "k31" THEN 4 ELSE 3) :
                 /\ 0 <= pos - k * d /\ pos - k * d < n
                 /\ rows[r][pos - k * d + 1] = led}

\* C4: every batch the animation loop of knightrider3 and knightrider3.1 hands to
\* the driver has exactly one entry for each LED of the rows, an LED that is
\* neither head nor trail in the step carries the off colour, and the batch is
\* the one computed from the rows and the step alone.
C4_FrameComplete ==
    (prog = "kr" /\ kr_variant \in {"k3", "k31"} /\ kr_batch_step >= 0) =>
        /\ [i \in DOMAIN kr_batch |-> kr_batch[i][1]] = SortedSeq(all_leds(kr_rows))
        /\ LET lit == HeadTrailLeds(kr_variant, kr_rows, kr_batch_step)
           IN \A i \in DOMAIN kr_batch :
                IF kr_batch[i][1] \notin lit
                THEN /\ kr_batch[i][2] = OffRGB
                     /\ kr_variant = "k31" => kr_batch[i][3] = 0
                ELSE kr_batch[i][2] # OffRGB
        /\ kr_batch = led_colors(kr_variant,
                                 merge_rows(kr_variant, baseline(kr_variant, kr_rows),
                                            kr_rows, kr_batch_step))

\* C4 witness: a batch of a later step in which an LED that was lit in the step
\* before is neither head nor trail any more.
C4_Witness ==
    /\ prog = "kr" /\ kr_variant = "k31" /\ kr_batch_step >= 1
    /\ \E i \in DOMAIN kr_batch :
         /\ kr_batch[i][1] \in HeadTrailLeds("k31", kr_rows, kr_batch_step - 1)
         /\ kr_batch[i][1] \notin HeadTrailLeds("k31", kr_rows, kr_batch_step)
         /\ kr_batch[i][2] = OffRGB
    /\ \E i \in DOMAIN kr_batch : kr_batch[i][2] # OffRGB

(***************************************************************************)
(* What the claims about the disco dance floor speak of.                   *)
(***************************************************************************)
DD_FlushedBy(sw, t) == dd_sent[sw].by = t

DD_Lit(leds) == {i \in 0..(DD_BufLen - 1) : leds[i] # OffRGB}

\* C5: an LED that received no dancer write during a tick is off in the next
\* frame the flusher dispatches.
C5_UnwrittenLedIsOff ==
    prog = "disco" =>
        \A sw \in DD_Switches :
            DD_FlushedBy(sw, "flusher") =>
                \A i \in 0..(DD_BufLen - 1) :
                    i \notin dd_sent[sw].fresh => dd_sent[sw].leds[i] = OffRGB

\* C7: every frame a flush works on equals, at all 48 positions, the content
\* the floor buffer of that switch had at the instant its snapshot began.
C7_NoTornFrame ==
    prog = "disco" =>
        \A sw \in DD_Switches :
            dd_sent[sw].by # "none" => dd_sent[sw].leds = dd_sent[sw].at

\* C7: the flusher has dispatched a lit frame that dancers have since moved
\* away from, while a dancer is at its write and _send_buffers holds the lock.
C7_Witness ==
    /\ prog = "disco"
    /\ DD_FlushedBy("unten", "flusher")
    /\ DD_Lit(dd_sent["unten"].leds) # {}
    /\ dd_leds["unten"] # dd_sent["unten"].leds
    /\ dd_lock = "flusher" /\ dd_pos["flusher"] > 1
    /\ \E d \in DD_Dancers : dd_dancer[d] = "write"

(***************************************************************************)
(* What the claims about the update queue speak of.                        *)
(***************************************************************************)
\* C6: each time the update thread takes a frame, that frame is the one the
\* latest update_leds call submitted.
C6_TakesLatestFrame ==
    prog = "queue" =>
        (sc_led_colors.frame # SC_NoFrame => sc_led_colors.frame = sc_led_colors.latest)

(***************************************************************************)
(* What the claims about the audio visualizers speak of.                   *)
(***************************************************************************)
InUnit(x) == RLeq(RInt(0), x) /\ RLeq(x, RInt(1))

\* C3: the buffer a tick starts from is off for every known LED, and a tick in
\* which nothing is contributed dispatches an all-off frame: in animate_rows
\* merged_updates holds 'off' for exactly the LEDs of all_leds before the rows
\* are merged, and a batch without head or trail is off throughout; in
\* update_switches both buffers have 48 entries, an LED is lit only if its
\* column lights one, and both are all off when no column does.
C3_FreshBufferAllOff ==
    /\ (prog = "kr" /\ kr_variant \in {"k3", "k31"} /\ kr_pc = "merge") =>
           /\ DOMAIN kr_merged = all_leds(kr_rows)
           /\ \A led \in DOMAIN kr_merged :
                kr_merged[led][1] = "off" /\ kr_merged[led][2] = OffRGB
    /\ (prog = "kr" /\ kr_variant \in {"k3", "k31"} /\ kr_batch_step >= 0
            /\ HeadTrailLeds(kr_variant, kr_rows, kr_batch_step) = {}) =>
           \A i \in DOMAIN kr_batch : kr_batch[i][2] = OffRGB
    /\ (prog = "viz" /\ vz_updated) =>
           /\ \A sw \in {"unten", "oben"} : DOMAIN vz_leds[sw] = 0..(LEDS_PER_SWITCH - 1)
           /\ \A sw \in {"unten", "oben"}, i \in 0..(LEDS_PER_SWITCH - 1) :
                vz_leds[sw][i] # OffRGB => num_leds_lit(vz_levels[i % NUM_COLUMNS]) >= 1
           /\ (\A c \in 0..(NUM_COLUMNS - 1) : num_leds_lit(vz_levels[c]) = 0) =>
                \A sw \in {"unten", "oben"}, i \in 0..(LEDS_PER_SWITCH - 1) :
                    vz_leds[sw][i] = OffRGB

\* C3 witness: update_switches has built a frame in which no column lights an
\* LED although the level of a band is above 0 and the frame before had lit one.
C3_Witness ==
    /\ prog = "viz" /\ vz_updated /\ vz_col # 0
    /\ num_leds_lit(vz_last.before) >= 1
    /\ RLess(RInt(0), vz_levels[vz_col])
    /\ \A c \in 0..(NUM_COLUMNS - 1) : num_leds_lit(vz_levels[c]) = 0
    /\ \A sw \in {"unten", "oben"}, i \in 0..(LEDS_PER_SWITCH - 1) : vz_leds[sw][i] = OffRGB

\* C8: after any sequence of analyze calls prev_level and the returned level lie
\* in [0,1], and so does the level process_audio derives with the beat boost.
C8_LevelsInUnitInterval ==
    prog = "viz" =>
        /\ \A c \in 0..(NUM_COLUMNS - 1) : InUnit(vz_prev_level[c]) /\ InUnit(vz_levels[c])
        /\ InUnit(vz_last.returned)
        /\ InUnit(vz_last.level)

\* C8 witness: a bass band above 1/2 but below 1 is boosted on a beat and the
\* cap at 1.0 takes effect.
C8_Witness ==
    /\ prog = "viz" /\ vz_last.bass
    /\ RLess(Rat(1, 2), vz_last.returned) /\ RLess(vz_last.returned, RInt(1))
    /\ vz_last.level = RInt(1)

\* C9: analyze with no spectrum entry in the band returns and stores the
\* previous prev_level times the decay of the band, which is not above the
\* previous prev_level.
C9_EmptyBandIsPureDecay ==
    (prog = "viz" /\ vz_frames > 0 /\ vz_last.empty) =>
        /\ vz_last.returned = RMul(vz_last.before, vz_last.decay)
        /\ vz_prev_level[vz_col] = RMul(vz_last.before, vz_last.decay)
        /\ RLeq(vz_last.returned, vz_last.before)

\* C9 witness: an empty band after a level above 0: the level fell, and stays above 0.
C9_Witness ==
    /\ prog = "viz" /\ vz_frames >= 2 /\ vz_last.empty
    /\ RLess(RInt(0), vz_last.returned)
    /\ RLess(vz_last.returned, vz_last.before)

\* C10: with spectrum entries in the band the new level is the larger of the
\* scaled level and the previous level times the decay, in doubleMusic and in
\* music.py alike.
C10_MaxOfScaledAndDecayed ==
    (prog \in {"viz", "music"} /\ vz_frames > 0 /\ ~vz_last.empty) =>
        LET held == RMul(vz_last.before, vz_last.decay)
        IN /\ vz_last.returned \in {vz_last.scaled, held}
           /\ RLeq(vz_last.scaled, vz_last.returned)
           /\ RLeq(held, vz_last.returned)
           /\ vz_prev_level[vz_col] = vz_last.returned

\* C10 witness: a band with entries whose scaled level is above 0 but below the
\* decayed previous level, which is held.
C10_Witness ==
    /\ prog = "viz" /\ ~vz_last.empty
    /\ RLess(RInt(0), vz_last.scaled)
    /\ RLess(vz_last.scaled, vz_last.returned)
    /\ vz_last.returned = RMul(vz_last.before, vz_last.decay)

\* C11: the decay FrequencyBandAnalyzer.__init__ computes for each of the 24
\* configured FREQ_BANDS lies between DECAY_FAST and DECAY_SLOW.
C11_DecayWithinBounds ==
    prog = "viz" =>
        \A c \in 0..(NUM_COLUMNS - 1) :
            RLeq(DECAY_FAST, vz_decay[c]) /\ RLeq(vz_decay[c], DECAY_SLOW)

(***************************************************************************)
(* BeatDetector                                                            *)
(***************************************************************************)
\* All samples of h but the newest equal v.
ConstantBefore(h, v) == \A i \in 1..(Len(h) - 1) : h[i] = v

\* The strength s lies in [0, 2].
InZeroTwo(s) == s[1] >= 0 /\ RLeq(s[2], RInt(4))

\* The strength s is 0.8 times the strength t.
FourFifthsOf(s, t) == s[1] = t[1] /\ RMul(s[2], RInt(25)) = RMul(t[2], RInt(16))

\* The newest sample lies strictly above mean + 1.5 * std of the history.
NewestAboveThreshold ==
    LET n == Len(bd_history)
        x == bd_history[n]
        sum == SeqSum(bd_history)
        sumsq == SeqSumSq(bd_history)
    IN /\ n * x - sum > 0
       /\ 4 * (n * x - sum) * (n * x - sum) > 9 * (n * sumsq - sum * sum)

\* C12: each of the first 9 calls after construction reports no beat and a
\* strength of 0.0, and leaves last_beat_time and beat_strength as they were.
C12_WarmupSilent ==
    (prog = "beat" /\ bd_ret.called /\ bd_ret.len_before < 9) =>
        /\ ~bd_ret.is_beat
        /\ bd_ret.strength = ZeroStrength
        /\ bd_last_beat_time = bd_ret.last_before
        /\ bd_beat_strength = bd_ret.strength_before

\* The ninth call carried a spike that the detector would have judged a beat.
C12_Witness ==
    /\ prog = "beat" /\ bd_ret.called /\ bd_ret.len_before = 8
    /\ bd_ret.bass_energy = 10 * bd_ret.base
    /\ NewestAboveThreshold
    /\ ~bd_ret.is_beat

\* C13: with 9 up to BEAT_HISTORY_SIZE samples in the history, all of them a
\* constant v > 0, and the last beat more than BEAT_MIN_INTERVAL ago,
\* detect_beat(10 * v) reports a beat with a strength above 0.
C13_SpikeOnFlatHistoryIsBeat ==
    (/\ prog = "beat" /\ bd_ret.called
     /\ bd_ret.len_before >= 9 /\ bd_ret.len_before <= BEAT_HISTORY_SIZE
     /\ bd_ret.base > 0
     /\ ConstantBefore(bd_history, bd_ret.base)
     /\ bd_ret.bass_energy = 10 * bd_ret.base
     /\ bd_now - bd_ret.last_before > BEAT_MIN_INTERVAL) =>
        /\ bd_ret.is_beat
        /\ bd_ret.strength[1] = 1
        /\ RLess(RInt(0), bd_ret.strength[2])

\* The spike arrived at a full buffer of constant samples.
C13_Witness ==
    /\ prog = "beat" /\ bd_ret.called
    /\ bd_ret.len_before = BEAT_HISTORY_SIZE
    /\ ConstantBefore(bd_history, bd_ret.base)
    /\ bd_ret.bass_energy = 10 * bd_ret.base
    /\ bd_now - bd_ret.last_before > BEAT_MIN_INTERVAL
    /\ bd_ret.is_beat

\* C14: a call declares a beat exactly when the buffer is warmed up, the sample
\* is strictly above mean + 1.5 * std of the buffer with the sample in it, and
\* more than BEAT_MIN_INTERVAL has passed since last_beat_time; last_beat_time
\* changes on a declared beat only, so declared beats lie more than
\* BEAT_MIN_INTERVAL apart.
C14_BeatIffThreeConditions ==
    (prog = "beat" /\ bd_ret.called) =>
        /\ bd_ret.is_beat <=>
               (/\ Len(bd_history) >= 10
                /\ NewestAboveThreshold
                /\ bd_now - bd_ret.last_before > BEAT_MIN_INTERVAL)
        /\ (bd_last_beat_time # bd_ret.last_before) => bd_ret.is_beat
        /\ bd_ret.is_beat =>
               /\ bd_last_beat_time = bd_now
               /\ bd_last_beat_time - bd_ret.last_before > BEAT_MIN_INTERVAL

\* A sample above the threshold came too soon after a declared beat.
C14_Witness ==
    /\ prog = "beat" /\ bd_ret.called
    /\ Len(bd_history) >= 10
    /\ NewestAboveThreshold
    /\ bd_ret.last_before > 0
    /\ bd_now - bd_ret.last_before <= BEAT_MIN_INTERVAL
    /\ ~bd_ret.is_beat
    /\ bd_last_beat_time = bd_ret.last_before

\* C15: the stored beat_strength and every returned strength lie in [0, 2].
C15_StrengthInZeroTwo ==
    prog = "beat" => InZeroTwo(bd_beat_strength) /\ InZeroTwo(bd_ret.strength)

\* A beat whose quotient exceeded the cap by so much that 0.8 times it is above 2.
C15_Witness ==
    /\ prog = "beat" /\ bd_ret.called /\ bd_ret.is_beat
    /\ var_times_n2(bd_history) > 0
    /\ RLess(RInt(7), ratio_sq(bd_history, bd_ret.bass_energy))

\* C16: every call returns the stored strength after multiplying it by 0.8:
\* without a beat 0.8 times the strength stored before the call, on a beat 0.8
\* times the strength the beat has set.
C16_ReturnedIsDecayed ==
    (prog = "beat" /\ bd_ret.called) =>
        /\ bd_ret.strength = bd_beat_strength
        /\ ~bd_ret.is_beat => FourFifthsOf(bd_ret.strength, bd_ret.strength_before)
        /\ bd_ret.is_beat =>
               FourFifthsOf(bd_ret.strength,
                            strength_on_beat(bd_history, bd_ret.bass_energy))

\* A call without a beat found a strength above 0 left by an earlier beat.
C16_Witness ==
    /\ prog = "beat" /\ bd_ret.called /\ ~bd_ret.is_beat
    /\ bd_ret.strength_before[1] = 1
    /\ bd_ret.strength[1] = 1

(***************************************************************************)
(* Errors in animate_rows                                                  *)
(***************************************************************************)
\* The step from the unprimed to the primed state is a batch_set_leds call of the loop.
BatchCall == kr_pc = "send" /\ kr_merged # EmptyDict /\ kr_result' # "interrupt"

InLoop(pc) == pc \in {"begin", "merge", "send"}

\* C17: in knightrider3.1 a failed batch (False or an exception) adds one to
\* error_count and the loop goes on unless error_count has reached max_errors; a
\* successful batch sets error_count to 0, so error_count is the number of
\* failures since the last success; the loop is left by KeyboardInterrupt or
\* with 10 such failures, and once it is left no animation frame is sent.
C17_StopsAtTenFailuresInARow ==
    [][kr_variant = "k31" =>
        /\ (BatchCall /\ kr_result' = "ok") =>
               kr_errors' = 0 /\ kr_fails' = 0 /\ kr_pc' = "begin"
        /\ (BatchCall /\ kr_result' \in {"false", "raise"}) =>
               /\ kr_errors' = kr_errors + 1
               /\ kr_fails' = kr_fails + 1
               /\ kr_pc' = IF kr_fails' = max_errors THEN "finally" ELSE "begin"
        /\ kr_errors' = kr_fails'
        /\ (InLoop(kr_pc) /\ ~InLoop(kr_pc')) =>
               kr_result' = "interrupt" \/ kr_fails' = max_errors
        /\ ~InLoop(kr_pc) =>
               /\ ~InLoop(kr_pc')
               /\ kr_batch' = kr_batch /\ kr_batch_step' = kr_batch_step
      ]_vars

\* The loop was left after ten failures in a row that followed a success.
C17_Witness ==
    /\ prog = "kr" /\ kr_variant = "k31" /\ kr_pc = "done"
    /\ kr_fails = max_errors
    /\ kr_result = "false"
    /\ \E led \in DOMAIN kr_ctl : kr_ctl[led] # OffRGB

\* C18: knightrider3 on an etherlightwin controller whose every batch_set_leds
\* call fails has left the animation loop once more than max_retries calls in
\* a row have failed.
C18_DeadControllerStops ==
    (/\ prog = "kr" /\ kr_variant = "k3" /\ kr_driver = "etherlightwin"
     /\ kr_result = "false" /\ kr_fails = kr_step
     /\ kr_fails > max_retries) => ~InLoop(kr_pc)

(***************************************************************************)
(* The update thread and the driver's exceptions                           *)
(***************************************************************************)
\* C19: whatever set_led_color and flush raise, _update_loop is back at the
\* head of its loop after the frame, and it leaves the loop only there and only
\* with running set to False.
C19_DriverErrorKeepsLoop ==
    [][prog = "queue" =>
        /\ (sc_cons = "send" /\ sc_cons' # "send") => sc_cons' = "loop"
        /\ (sc_cons # "exit" /\ sc_cons' = "exit") => (sc_cons = "loop" /\ ~sc_running)
      ]_vars

\* After a frame on which the driver raised the thread has taken the next frame.
C19_Witness ==
    /\ prog = "queue" /\ sc_running
    /\ sc_cons = "send" /\ sc_sent = "raised"

\* C20: when animate_rows of knightrider3 or knightrider3.1 has ended, by
\* KeyboardInterrupt or by the error ceiling, the last batch it handed to the
\* controller names every LED of all rows, each with the colour off.
C20_LastBatchSwitchesOff ==
    (/\ prog = "kr" /\ kr_variant \in {"k3", "k31"}
     /\ kr_pc = "done" /\ all_leds(kr_rows) # {}) =>
        /\ \A led \in all_leds(kr_rows) :
               \E i \in DOMAIN kr_final : kr_final[i][1] = led
        /\ \A i \in DOMAIN kr_final :
               kr_final[i][1] \in all_leds(kr_rows) /\ kr_final[i][2] = OffRGB

\* knightrider3 ended by the error ceiling after frames of earlier steps, and
\* has issued the off batch.
C20_Witness ==
    /\ prog = "kr" /\ kr_variant = "k3" /\ kr_pc = "done"
    /\ kr_result = "raise" /\ kr_errors > max_retries
    /\ kr_batch_step > 0
    /\ Len(kr_final) = Cardinality(all_leds(kr_rows))

(***************************************************************************)
(* Shutdown of the dance floor                                             *)
(***************************************************************************)
\* C21: once stop() has returned, the last command each switch has received
\* is the all-off command, whatever the dancers and the flusher still do.
C21_LastCommandIsOff ==
    (prog = "disco" /\ ~dd_monitor_only /\ dd_pc["main"] = "done") =>
        \A sw \in DD_Switches : dd_cmd[sw][1] = "set_all_leds"

\* C22: when kinghtrider has ended and cleanup has run, with both update
\* threads at their end, the grid each switch was last written has no lit cell.
C22_RiderEndsDark ==
    (/\ prog = "rider" /\ kd_pc = "done"
     /\ \A sw \in KD_Switches : kd_thread[sw] = "exit") =>
        \A sw \in KD_Switches : kd_shown[sw] = empty_grid

\* The buffer positions of buff that are lit.
LitPositions(buff) == {i \in 0..(DD_BufLen - 1) : buff[i] # OffRGB}

\* batch holds (i + 1, buff[i], 100) for the lit positions i of buff, in
\* increasing order of i, and nothing else.
IsLitBatch(batch, buff) ==
    /\ Len(batch) = Cardinality(LitPositions(buff))
    /\ \A k \in 1..Len(batch) :
           /\ (batch[k][1] - 1) \in LitPositions(buff)
           /\ batch[k] = <<batch[k][1], buff[batch[k][1] - 1], 100>>
    /\ \A k \in 1..(Len(batch) - 1) : batch[k][1] < batch[k + 1][1]

\* C23: the step of flush that follows the copy of the buffer hands
\* batch_set_leds the entries (i + 1, colour, 100) of the lit positions i in
\* increasing order and nothing else; with no lit LED, as with monitor_only, the
\* switch receives no command.
C23_FlushSendsLitOnly ==
    [][prog = "disco" =>
        \A t \in DD_Threads, sw \in DD_Switches :
            (dd_pc[t] = "send_" \o sw /\ dd_pc'[t] # "send_" \o sw) =>
                IF dd_monitor_only \/ LitPositions(dd_buff[t].leds) = {}
                THEN dd_cmd' = dd_cmd
                ELSE /\ dd_cmd'[sw][1] = "batch_set_leds"
                     /\ IsLitBatch(dd_cmd'[sw][2], dd_buff[t].leds)
                     /\ \A o \in DD_Switches \ {sw} : dd_cmd'[o] = dd_cmd[o]
      ]_vars

\* A switch has received a batch of two lit LEDs.
C23_Witness ==
    /\ prog = "disco" /\ ~dd_monitor_only
    /\ \E sw \in DD_Switches :
           /\ dd_cmd[sw][1] = "batch_set_leds"
           /\ Len(dd_cmd[sw][2]) = 2

C25_MappingIsBijective ==
    (prog = "fn" /\ fn_name = "column_to_leds" /\ fn_out[1] = "ret") =>
        LET slot == fn_out[2]
            cells == (0..23) \X (0..3)
        IN /\ slot[1] = IF fn_args[2] <= 1 THEN "unten" ELSE "oben"
           /\ slot[2] \in 0..47
           /\ \A other \in cells :
                  other # fn_args => column_to_leds(other[1], other[2]) # slot
           /\ \A sw \in {"unten", "oben"}, i \in 0..47 :
                  \E c \in cells : column_to_leds(c[1], c[2]) = <<sw, i>>

C25_Witness ==
    /\ prog = "fn" /\ fn_name = "column_to_leds" /\ fn_args = <<23, 3>>
    /\ fn_out[1] = "ret" /\ fn_out[2] = <<"oben", 46>>

C27_DbScaleClampsAndGrows ==
    (prog = "fn" /\ fn_name \in {"db_scale", "music_db_scale"} /\ fn_out[1] = "ret") =>
        /\ \A k \in 1..2 :
               LET db == fn_args[k]
                   scaled == fn_out[2][k]
               IN /\ RLeq(RInt(0), scaled) /\ RLeq(scaled, RInt(1))
                  /\ db <= MIN_DB => scaled = RInt(0)
                  /\ db >= MAX_DB => scaled = RInt(1)
                  /\ (MIN_DB < db /\ db < MAX_DB) =>
                         scaled[1] * (MAX_DB - MIN_DB) = (db - MIN_DB) * scaled[2]
        /\ fn_args[1] <= fn_args[2] => RLeq(fn_out[2][1], fn_out[2][2])

C27_Witness ==
    /\ prog = "fn" /\ fn_name = "music_db_scale" /\ fn_args = <<-45, -9>>
    /\ fn_out[1] = "ret" /\ fn_out[2] = <<Rat(1, 2), RInt(1)>>

\* 0, 1, ..., n-1, n-2, ..., 1: one turn of the head on a row of n >= 2 LEDs.
Triangle(n) == [i \in 1..(2 * n - 2) |-> IF i <= n THEN i - 1 ELSE 2 * n - 1 - i]

\* C29: for n >= 2 and every integer step, negative ones included,
\* compute_pingpong_pos(step, n) lies in 0..n-1, repeats after 2n-2 steps, runs
\* through 0,1,...,n-1,n-2,...,1 from step 0 on, and moves by exactly 1 from one
\* step to the next; for n <= 1 it is 0.
C29_PingPongShape ==
    (prog = "fn" /\ fn_name = "compute_pingpong_pos" /\ fn_out[1] = "ret") =>
        LET step == fn_args[1]
            n == fn_args[2]
            w == fn_out[2]
        IN IF n <= 1 THEN \A k \in DOMAIN w : w[k] = 0
           ELSE /\ \A k \in DOMAIN w : w[k] \in 0..(n - 1)
                /\ w[2 * n - 1] = w[1]
                /\ \A k \in 1..(2 * n - 2) : Abs(w[k + 1] - w[k]) = 1
                /\ step >= 0 =>
                       \A k \in DOMAIN w :
                           w[k] = Triangle(n)[((step + k - 1) % (2 * n - 2)) + 1]

C29_Witness ==
    /\ prog = "fn" /\ fn_name = "compute_pingpong_pos" /\ fn_args = <<-1, 5>>
    /\ fn_out[1] = "ret" /\ fn_out[2] = <<1, 0, 1, 2, 3, 4, 3, 2, 1>>

HeadAt(step, n) == Triangle(n)[(step % (2 * n - 2)) + 1]

\* C30: for a row of n >= 2 LEDs the frame of build_frame_for_row
\* (knightrider3.1) holds row[pos] as main and row[pos - k*d] as trail k for
\* k = 1..4 where that index is inside the row, d being +1 if the head moved up
\* since the step before and -1 otherwise; it holds no other LED, so at most 5.
C30_FrameIsHeadAndTrailsBehind ==
    (/\ prog = "fn" /\ fn_name = "build_frame_for_row" /\ fn_out[1] = "ret"
     /\ Len(fn_args[1]) >= 2) =>
        LET row == fn_args[1]
            step == fn_args[2]
            n == Len(row)
            frame == fn_out[2]
            pos == HeadAt(step, n)
            d == IF pos > HeadAt(step - 1, n) THEN 1 ELSE -1
            names == <<"main", "trail1", "trail2", "trail3", "trail4">>
            inside == {k \in 0..4 : pos - k * d \in 0..(n - 1)}
        IN /\ DOMAIN frame = {row[pos - k * d + 1] : k \in inside}
           /\ \A k \in inside : frame[row[pos - k * d + 1]] = names[k + 1]
           /\ Cardinality(DOMAIN frame) <= 5

C30_Witness ==
    /\ prog = "fn" /\ fn_name = "build_frame_for_row" /\ fn_args = <<FN_Row(6), 6>>
    /\ fn_out[1] = "ret" /\ DOMAIN fn_out[2] = {9, 11}
    /\ fn_out[2][9] = "main" /\ fn_out[2][11] = "trail1"

\* C28: a write_command whose transport raises returns False instead of
\* raising; every write_command leaves the lock free and led_cache as it was.
C28_TransportErrorBecomesFalse ==
    [][prog = "driver" =>
        \A t \in EL_Threads :
            (el_pc[t] = "locked" /\ el_pc'[t] # "locked") =>
                /\ el_pc'[t] = "returned"
                /\ el_ret'[t][1] = "raise" => el_ret'[t][2] = FALSE
                /\ el_lock' = 0
                /\ el_led_cache' = el_led_cache
      ]_vars

C28_Witness ==
    /\ prog = "driver" /\ el_led_cache # <<>> /\ el_lock = 0
    /\ el_ret[1] = <<"raise", FALSE, 1>> /\ el_ret[2] = <<"ok", TRUE, 2>>
    /\ \A t \in EL_Threads : el_pc[t] = "idle"

\* What the controller shows after the steps 0..step-1 of knightrider2 when
\* every set_led_color of every step has taken effect.
RECURSIVE K2_AllApplied(_, _)
K2_AllApplied(rows, step) ==
    IF step = 0 THEN [led \in KR_LEDS |-> OffRGB]
    ELSE driver_apply(K2_AllApplied(rows, step - 1),
                      led_colors("k2", merge_rows("k2", baseline("k2", rows), rows, step - 1)))

\* C31: in knightrider2.animate_rows, after every step whose commands all took
\* effect, each LED that is neither head nor trail 1-3 of that step is off on
\* the controller.
C31_NoStaleTrailInK2 ==
    (/\ prog = "kr" /\ kr_variant = "k2" /\ kr_pc = "begin" /\ kr_step >= 1
     /\ kr_ctl = K2_AllApplied(kr_rows, kr_step)) =>
        \A led \in KR_LEDS :
            led \notin HeadTrailLeds("k2", kr_rows, kr_step - 1) => kr_ctl[led] = OffRGB

\* C32: every grid submitted to SW_OBEN has its only lit cell in row 1 and
\* every grid submitted to SW_UNTEN in row 0, of the same column; and when the
\* run is over both update threads have dispatched the same sequence of columns.
C32_SwitchesInSync ==
    prog = "rider" =>
        /\ \A sw \in KD_Switches : \A i \in DOMAIN kd_queue[sw] :
               \E col \in 0..(KD_COLS - 1) : kd_queue[sw][i] = {<<KD_Row(sw), col>>}
        /\ (kd_pc = "done" /\ ~kd_interrupted /\ \A sw \in KD_Switches : kd_thread[sw] = "exit") =>
               kd_dispatched["oben"] = kd_dispatched["unten"]

\* 0, 1, ..., cols-1, cols-2, ..., 0.
Sweep(cols) == [i \in 1..cols |-> i - 1] \o [i \in 1..(cols - 1) |-> cols - 1 - i]

RECURSIVE Sweeps(_, _)
Sweeps(cols, l) == IF l = 0 THEN <<>> ELSE Sweep(cols) \o Sweeps(cols, l - 1)

IsPrefix(a, b) == Len(a) <= Len(b) /\ a = SubSeq(b, 1, Len(a))

\* C33: kinghtrider(loops = L), not interrupted, activates the columns of L
\* sweeps 0,1,...,cols-1,cols-2,...,0 and no more, then cleanup stops both
\* controllers, and the call ends.
C33_ExactlyLSweeps ==
    /\ [](prog = "rider" =>
            /\ IsPrefix(kd_sent, Sweeps(KD_COLS, kd_loops))
            /\ (kd_pc # "run" /\ ~kd_interrupted) => kd_sent = Sweeps(KD_COLS, kd_loops)
            /\ kd_pc = "done" => \A sw \in KD_Switches : ~kd_running[sw])
    /\ <>(prog = "rider" => kd_pc = "done")

C33_Witness ==
    /\ prog = "rider" /\ kd_pc = "done" /\ ~kd_interrupted /\ kd_loops = 2
    /\ kd_sent = <<0, 1, 2, 1, 0, 0, 1, 2, 1, 0>>


\* The four LEDs of a column from the bottom row to the top row.
ColumnLeds(leds, col) ==
    << leds["unten"][col], leds["unten"][24 + col], leds["oben"][col], leds["oben"][24 + col] >>

\* k is an integer nearest to x.
NearestTo(x, k) ==
    /\ RLeq(RSub(x, Rat(1, 2)), RInt(k))
    /\ RLeq(RInt(k), RAdd(x, Rat(1, 2)))

\* C34: after update_switches every column shows the lowest k of its four LEDs
\* lit and the others off, k being level * 4 rounded to an integer in 0..4 of
\* the column's own level: an LED is lit only if all LEDs below it are lit.
C34_ColumnsFillBottomUp ==
    (prog = "viz" /\ vz_updated) =>
        \A col \in 0..(NUM_COLUMNS - 1) :
            LET four == ColumnLeds(vz_leds, col)
                k == Cardinality({r \in 1..4 : four[r] # OffRGB})
            IN /\ \A r \in 1..4 : four[r] # OffRGB <=> r <= k
               /\ NearestTo(RMul(vz_levels[col], RInt(4)), k)
               /\ k = PyRound(RMul(vz_levels[col], RInt(4)))

C34_Witness ==
    /\ prog = "viz" /\ vz_updated
    /\ \E col \in 0..(NUM_COLUMNS - 1) :
           /\ ColumnLeds(vz_leds, col)[3] # OffRGB
           /\ ColumnLeds(vz_leds, col)[4] = OffRGB
    /\ \E col \in 0..(NUM_COLUMNS - 1) : ColumnLeds(vz_leds, col)[1] = OffRGB


\* C35: once stop_all_processes has returned self.processes is empty and no
\* subprocess runs that has not been sent terminate(); kill() is only ever
\* called on a subprocess whose wait after terminate() timed out.
C35_StopAllEmptiesTheList ==
    prog = "main" =>
        /\ mw_returned =>
               /\ mw_processes = <<>>
               /\ \A p \in MW_Pids : mw_alive[p] => p \in mw_term
        /\ mw_kill \subseteq mw_timeout
        /\ mw_timeout \subseteq mw_term

C35_Witness ==
    /\ prog = "main" /\ mw_returned
    /\ mw_kill # {}
    /\ mw_term \ mw_kill # {}
    /\ \E p \in MW_Pids : mw_alive[p]


\* C36: in alternating mode the colour changes of the mode thread go to
\* SW_UNTEN, SW_OBEN, SW_UNTEN, ... in strict alternation starting with
\* SW_UNTEN, and at most one of them is issued after _running was cleared.
C36_StrictAlternation ==
    (prog = "floor" /\ fl_mode = "alternating") =>
        /\ \A i \in DOMAIN fl_changes :
               fl_changes[i] = IF i % 2 = 1 THEN "unten" ELSE "oben"
        /\ \A i \in DOMAIN fl_changes, j \in DOMAIN fl_changes :
               (i < j /\ fl_changes[i] = fl_changes[j]
                /\ \A m \in (i + 1)..(j - 1) : fl_changes[m] # fl_changes[i]) => j = i + 2
        /\ fl_late <= 1

C36_Witness ==
    /\ prog = "floor" /\ fl_mode = "alternating"
    /\ Len(fl_changes) >= 3
    /\ fl_late = 1
    /\ ~fl_running


\* The frames of the queue are in the order of their submission and newer than
\* the frame the update thread took last.
QueueInSubmissionOrder ==
    /\ \A i \in DOMAIN sc_queue, j \in DOMAIN sc_queue :
           i < j => sc_queue[i].id < sc_queue[j].id
    /\ \A i \in DOMAIN sc_queue : sc_led_colors.frame.id < sc_queue[i].id

\* C37: the update queue never holds more than 10 frames, the frames that
\* remain are dispatched in the order of their submission, and every
\* update_leds call with a frame of the right length ends with that frame
\* enqueued, the oldest frame having made room for it when the queue was full.
C37_QueueBoundedDropsOldest ==
    prog = "queue" =>
        /\ Len(sc_queue) <= QUEUE_MAXSIZE
        /\ QueueInSubmissionOrder
        /\ sc_prod = "idle" => sc_latest.id = sc_calls


RECURSIVE Flatten(_)
Flatten(seqs) == IF seqs = <<>> THEN <<>> ELSE Head(seqs) \o Flatten(Tail(seqs))

\* A command of flush_led_cache: chunks of 1..50 lines, all but the last full.
WellChunked(chunks) ==
    \A k \in DOMAIN chunks :
        /\ 1 <= Len(chunks[k]) /\ Len(chunks[k]) <= chunk_size
        /\ k < Len(chunks) => Len(chunks[k]) = chunk_size

\* C38: the command flush_led_cache builds holds every line of led_cache once,
\* in insertion order, in chunks of at most 50; a flush with an empty cache
\* sends nothing; when a flush returns led_cache is empty, whatever
\* write_command returned; so with the flushes one after the other every line
\* ever cached has been sent exactly once, in order, or still waits in
\* led_cache.
C38_FlushSendsEachLineOnce ==
    /\ []((prog = "fn" /\ fn_name = "flush_led_cache" /\ fn_out[1] = "ret") =>
              /\ Flatten(fn_out[2]) = fn_args[1]
              /\ WellChunked(fn_out[2]))
    /\ [](prog = "driver" =>
              /\ \A i \in DOMAIN el_sent : el_sent[i] # <<>> /\ WellChunked(el_sent[i])
              /\ (~el_overlap /\ \A t \in EL_Threads : el_pc[t] = "idle") =>
                     Flatten(Flatten(el_sent)) \o el_led_cache = [i \in 1..el_cached |-> i])
    /\ [][\A t \in EL_Threads :
              (prog = "driver" /\ el_pc[t] = "returned" /\ el_flush[t] /\ el_pc'[t] = "idle")
                  => el_led_cache' = <<>>]_vars

\* Two flushes one after the other, the first one's write failed.
C38_Witness ==
    /\ prog = "driver" /\ ~el_overlap /\ el_led_cache = <<>>
    /\ el_sent = << <<<<1>>>>, <<<<2>>>> >>
    /\ \E t \in EL_Threads : el_ret[t][2] = FALSE /\ el_ret[t][3] = 1
    /\ \A t \in EL_Threads : el_pc[t] = "idle"


\* C39: at most one thread is inside the with block of write_command, where
\* the command is sent and its output read, and that thread holds the lock.
C39_WriteCommandsExcludeEachOther ==
    prog = "driver" =>
        /\ \A t \in EL_Threads, u \in EL_Threads :
               (el_pc[t] = "locked" /\ el_pc[u] = "locked") => t = u
        /\ \A t \in EL_Threads : el_pc[t] = "locked" <=> el_lock = t

\* One caller is inside the with block while the other waits for the lock.
C39_Witness ==
    /\ prog = "driver"
    /\ \E t \in EL_Threads, u \in EL_Threads :
           /\ el_pc[t] = "locked" /\ el_lock = t
           /\ el_pc[u] = "enter"
           /\ el_ret[u][3] > 0


\* C40: build_led_index_map(num_leds, columns) returns `columns` lists which,
\* one after the other, are 1, 2, ..., num_leds: consecutive, disjoint, every
\* index once; the first num_leds mod columns lists have one index more than
\* the others, so the sizes differ by at most 1.
C40_IndexMapPartitionsTheLeds ==
    (prog = "fn" /\ fn_name = "build_led_index_map" /\ fn_out[1] = "ret") =>
        LET num_leds == fn_args[1]
            columns == fn_args[2]
            map_cols == fn_out[2]
        IN /\ Len(map_cols) = columns
           /\ Flatten(map_cols) = [i \in 1..num_leds |-> i]
           /\ \A c \in 1..columns, d \in 1..columns :
                  /\ Len(map_cols[c]) - Len(map_cols[d]) <= 1
                  /\ c < d =>
                         \A i \in DOMAIN map_cols[c], j \in DOMAIN map_cols[d] :
                             map_cols[c][i] < map_cols[d][j]
           /\ \A c \in 1..columns :
                  Len(map_cols[c]) = IF c <= num_leds % columns
                                     THEN num_leds \div columns + 1
                                     ELSE num_leds \div columns

C40_Witness ==
    /\ prog = "fn" /\ fn_name = "build_led_index_map"
    /\ fn_args = <<7, 3>>
    /\ fn_out = FN_Ret(<< <<1, 2, 3>>, <<4, 5>>, <<6, 7>> >>)

====
